---- MODULE Spec2Model ----
(***************************************************************************)
(* A model of the DataArt repository: the GDGParser class in its two       *)
(* variants (the JSON-articles parser of src/gdg_parser.js and the RSS/XML *)
(* parser of src/unnamed/part_001), the feed loading of the two sketches   *)
(* (src/unnamed/part_000) and the two server routes.                       *)
(*                                                                         *)
(* A JavaScript string is a sequence of one-character strings, so that     *)
(* trim, split, join and the regular expressions are computed character by *)
(* character.  The empty sequence also stands for the other falsy values   *)
(* of an optional text field (undefined, null): the code tests these       *)
(* fields only for truthiness.                                             *)
(***************************************************************************)
EXTENDS Integers, Sequences, FiniteSets, TLC

VARIABLES
  variant,           \* which GDGParser class is loaded: "json" or "xml"
  processedEntries,  \* GDGParser.processedEntries
  prevEntries,       \* processedEntries before the last call
  lastOp,            \* the last method called on the parser
  lastArg,           \* its argument
  lastRet,           \* what it returned and how its loop ran
  nOps,              \* number of calls made so far
  sketch,            \* which sketch runs: "rss", "json", or "none"
  pc,                \* where the promise chain of preload stands
  response,          \* how the fetch promise settled
  body,              \* how response.text() or response.json() settled
  gdgData,           \* the global gdgData of the sketch
  dataLoaded,        \* the global dataLoaded of the sketch
  handler,           \* which server route is deployed: "netlify", "express", or "none"
  at,                \* where the handler of the request stands
  fetched,           \* how fetch(url), or fs.readFile of the Express route, settled
  buffered,          \* how response.arrayBuffer() settled
  replies,           \* the answers given to the requests so far
  enabled,           \* SoundEffects.enabled
  initialized,       \* SoundEffects.initialized
  noise,             \* backgroundNoise.state, and with it the LFO and the Transport
  calls,             \* the calls of toggleSounds made so far
  sounded,           \* the last play method or loop callback run, and the synth it triggered
  textBlocks,        \* the global textBlocks of the sketch
  paused,            \* settings.paused
  frameCount,        \* the frames drawn so far
  nAdds              \* calls of addNewTextBlock the handlers made so far

parserVars == <<variant, processedEntries, prevEntries, lastOp, lastArg, lastRet, nOps>>

loadVars == <<sketch, pc, response, body, gdgData, dataLoaded>>

serverVars == <<handler, at, fetched, buffered, replies>>

soundVars == <<enabled, initialized, noise, calls, sounded>>

blockVars == <<textBlocks, paused, frameCount, nAdds>>

vars == <<parserVars, loadVars, serverVars, soundVars, blockVars>>

----------------------------------------------------------------------------
(* Bounds of the model *)

MaxOps == 2        \* calls made on one parser
NearCap == 1       \* entries short of maxEntries when the calls at capacity start

----------------------------------------------------------------------------
\* a const declaration: Body with the value v, computed once
Let(v, Body(_)) == Body(v)

----------------------------------------------------------------------------
(* Characters and the string primitives of JavaScript the code uses *)

Digits == {"0","1","2","3","4","5","6","7","8","9"}

LowerCase ==
  {"a", "b", "c", "d", "e", "f", "g", "h", "i", "j", "k", "l", "m",
   "n", "o", "p", "q", "r", "s", "t", "u", "v", "w", "x", "y", "z"}

UpperCase ==
  {"A", "B", "C", "D", "E", "F", "G", "H", "I", "J", "K", "L", "M",
   "N", "O", "P", "Q", "R", "S", "T", "U", "V", "W", "X", "Y", "Z"}

Letters == LowerCase \cup UpperCase

WordChars == Letters \cup Digits \cup {"_"}

\* \w of a regular expression
IsWordChar(c) == c \in WordChars

\* \s of a regular expression, and the characters trim() removes
IsSpace(c) == c \in {" ", "\n", "\t"}

LowerOf ==
  "A" :> "a" @@ "B" :> "b" @@ "C" :> "c" @@ "D" :> "d" @@ "E" :> "e" @@ "F" :> "f" @@
  "G" :> "g" @@ "H" :> "h" @@ "I" :> "i" @@ "J" :> "j" @@ "K" :> "k" @@ "L" :> "l" @@
  "M" :> "m" @@ "N" :> "n" @@ "O" :> "o" @@ "P" :> "p" @@ "Q" :> "q" @@ "R" :> "r" @@
  "S" :> "s" @@ "T" :> "t" @@ "U" :> "u" @@ "V" :> "v" @@ "W" :> "w" @@ "X" :> "x" @@
  "Y" :> "y" @@ "Z" :> "z"

\* the i flag of a regular expression: characters compared in lower case
ToLower(c) == IF c \in UpperCase THEN LowerOf[c] ELSE c

\* \b at position p: between s[p-1] and s[p], positions 1..Len(s)+1
WordBoundary(s, p) ==
  LET before == p > 1 /\ p - 1 <= Len(s) /\ IsWordChar(s[p - 1])
      after == p >= 1 /\ p <= Len(s) /\ IsWordChar(s[p])
  IN before # after

\* the first position from i on that holds no white space
SkipSpaces(s, i) ==
  CHOOSE j \in i..(Len(s) + 1) :
    /\ j = Len(s) + 1 \/ ~IsSpace(s[j])
    /\ \A k \in i..(j - 1) : IsSpace(s[k])

\* String.prototype.trim
Trim(s) ==
  IF \A k \in 1..Len(s) : IsSpace(s[k]) THEN <<>>
  ELSE SubSeq(s, SkipSpaces(s, 1),
              CHOOSE j \in 1..Len(s) : ~IsSpace(s[j]) /\ \A k \in (j + 1)..Len(s) : IsSpace(s[k]))

\* the first position from i on that holds white space
NextSpace(s, i) ==
  CHOOSE j \in i..(Len(s) + 1) :
    /\ j = Len(s) + 1 \/ IsSpace(s[j])
    /\ \A k \in i..(j - 1) : ~IsSpace(s[k])

RECURSIVE SplitWsFrom(_, _, _)
\* the pieces of s from position i on, after the pieces acc
SplitWsFrom(s, i, acc) ==
  Let(NextSpace(s, i), LAMBDA j :
    IF j > Len(s) THEN Append(acc, SubSeq(s, i, j - 1))
    ELSE SplitWsFrom(s, SkipSpaces(s, j), Append(acc, SubSeq(s, i, j - 1))))

\* text.split(/\s+/)
SplitWs(s) == SplitWsFrom(s, 1, <<>>)

RECURSIVE JoinFrom(_, _, _, _)
JoinFrom(parts, sep, k, acc) ==
  IF k > Len(parts) THEN acc
  ELSE JoinFrom(parts, sep, k + 1, IF k = 1 THEN parts[1] ELSE acc \o sep \o parts[k])

\* Array.prototype.join
Join(parts, sep) == JoinFrom(parts, sep, 1, <<>>)

\* does the text hold pat at position i, compared case-insensitively
MatchesAt(s, i, pat) ==
  /\ i >= 1
  /\ i + Len(pat) - 1 <= Len(s)
  /\ \A k \in 1..Len(pat) : ToLower(s[i + k - 1]) = ToLower(pat[k])

----------------------------------------------------------------------------
(* GDGParser.createRedactedVersion, pattern variant (src/gdg_parser.js) *)

sensitivePatterns ==
  << {<<"c","l","a","s","s","i","f","i","e","d">>, <<"c","o","n","f","i","d","e","n","t","i","a","l">>, <<"s","e","c","r","e","t">>},
     {<<"c","a","s","u","a","l","t","i","e","s">>, <<"d","e","a","t","h","s">>, <<"i","n","j","u","r","e","d">>, <<"w","o","u","n","d","e","d">>},
     {<<"c","o","r","r","u","p","t","i","o","n">>, <<"f","r","a","u","d">>, <<"m","i","s","c","o","n","d","u","c","t">>, <<"v","i","o","l","a","t","i","o","n">>},
     {<<"i","n","v","e","s","t","i","g","a","t","i","o","n">>, <<"p","r","o","b","e">>, <<"i","n","q","u","i","r","y">>},
     {<<"f","a","i","l","u","r","e">>, <<"m","i","s","t","a","k","e">>, <<"e","r","r","o","r">>, <<"i","n","c","i","d","e","n","t">>},
     {<<"p","r","o","t","e","s","t">>, <<"u","n","r","e","s","t">>, <<"r","i","o","t">>, <<"d","e","m","o","n","s","t","r","a","t","i","o","n">>},
     {<<"i","n","t","e","l","l","i","g","e","n","c","e">>, <<"s","u","r","v","e","i","l","l","a","n","c","e">>, <<"o","p","e","r","a","t","i","o","n">>},
     {<<"w","e","a","p","o","n">>, <<"m","i","l","i","t","a","r","y">>, <<"d","e","f","e","n","s","e">>, <<"p","o","l","i","c","e">>, <<"s","e","c","u","r","i","t","y">>},
     {<<"g","o","v","e","r","n","m","e","n","t">>, <<"o","f","f","i","c","i","a","l">>, <<"a","u","t","h","o","r","i","t","y">>},
     {<<"c","i","t","y">>, <<"t","o","w","n">>, <<"v","i","l","l","a","g","e">>, <<"d","i","s","t","r","i","c","t">>, <<"r","e","g","i","o","n">>} >>

\* /\b(?:t1|t2|...)\b/i.test(word)
TestTerms(word, terms) ==
  \E i \in 1..Len(word) :
    /\ WordBoundary(word, i)
    /\ \E t \in terms : MatchesAt(word, i, t) /\ WordBoundary(word, i + Len(t))

\* the positions after \d+ started at i
DigitRunEnds(s, i) ==
  {j \in (i + 1)..(Len(s) + 1) : \A k \in i..(j - 1) : s[k] \in Digits}

RECURSIVE ThousandsStar(_, _)
\* the positions after (?:,\d{3})* started at any position of P
ThousandsStar(s, P) ==
  LET step == {p + 4 : p \in {q \in P : /\ q + 3 <= Len(s)
                                         /\ s[q] = ","
                                         /\ \A k \in 1..3 : s[q + k] \in Digits}}
  IN IF step \subseteq P THEN P ELSE ThousandsStar(s, P \cup step)

\* the positions after (?:\.\d+)? started at any position of P
OptFraction(s, P) ==
  P \cup UNION {DigitRunEnds(s, p + 1) : p \in {q \in P : q <= Len(s) /\ s[q] = "."}}

\* the test for a number without its two \b
TestNumber_unbounded(word) ==
  \E i \in 1..Len(word) : word[i] \in Digits

\* /\b(?:\d+(?:,\d{3})*(?:\.\d+)?)\b/.test(word)
TestNumber(word) ==
  \E i \in 1..Len(word) :
    /\ word[i] \in Digits
    /\ WordBoundary(word, i)
    /\ \E e \in OptFraction(word, ThousandsStar(word, DigitRunEnds(word, i))) :
         WordBoundary(word, e)

\* sensitivePatterns.some(pattern => pattern.test(word))
IsSensitive(word) ==
  \/ \E g \in 1..Len(sensitivePatterns) : TestTerms(word, sensitivePatterns[g])
  \/ TestNumber(word)

REDACTED == <<"[","R","E","D","A","C","T","E","D","]">>

RedactWord(word) == IF IsSensitive(word) THEN REDACTED ELSE word

createRedactedVersion(text) ==
  IF text = <<>> THEN <<>>
  ELSE Let(SplitWs(text), LAMBDA words :
         Join([k \in 1..Len(words) |-> RedactWord(words[k])], <<" ">>))

----------------------------------------------------------------------------
(* GDGParser.addEntry, the same in both variants *)

maxEntries == 100

\* a filter that does not trim
ValidChange_untrimmed(ch) == ch.from # <<>> /\ ch.to # <<>>

\* ch.from && ch.from.trim().length > 0 && ch.to && ch.to.trim().length > 0
ValidChange(ch) ==
  /\ ch.from # <<>> /\ Len(Trim(ch.from)) > 0
  /\ ch.to # <<>> /\ Len(Trim(ch.to)) > 0

\* Array.prototype.filter
FilterChanges(changes) == SelectSeq(changes, ValidChange)

\* the new processedEntries; an absent changes field is the empty list
addEntry(entries, entry) ==
  IF Len(entries) < maxEntries
  THEN IF Len(entry.changes) > 0
       THEN Let(FilterChanges(entry.changes), LAMBDA kept :
              IF Len(kept) > 0
              THEN Append(entries, [entry EXCEPT !.changes = kept])
              ELSE entries)
       ELSE entries
  ELSE entries

----------------------------------------------------------------------------
(* new URL(url), on the URLs the model feeds it: an absolute URL is a      *)
(* scheme, ":" and the rest; http and https need a host; the host of a     *)
(* URL with another scheme and no "//" is the empty string; a text with no *)
(* scheme throws.                                                          *)

SchemeChars == Letters \cup Digits \cup {"+", "-", "."}

\* the position of the ":" ending the scheme, 0 when there is no scheme
SchemeEnd(url) ==
  IF /\ Len(url) > 0
     /\ url[1] \in Letters
     /\ \E c \in 1..Len(url) : url[c] = ":" /\ \A k \in 1..(c - 1) : url[k] \in SchemeChars
  THEN CHOOSE c \in 1..Len(url) : url[c] = ":" /\ \A k \in 1..(c - 1) : url[k] \in SchemeChars
  ELSE 0

LowerText(s) == [k \in 1..Len(s) |-> ToLower(s[k])]

\* the characters of s from position i up to the first one in stops
TakeUntil(s, i, stops) ==
  LET end == IF \E j \in i..Len(s) : s[j] \in stops
             THEN (CHOOSE j \in i..Len(s) : s[j] \in stops /\ \A k \in i..(j - 1) : s[k] \notin stops) - 1
             ELSE Len(s)
  IN SubSeq(s, i, end)

\* the first position from i on that holds no slash
SkipSlashes(s, i) ==
  CHOOSE j \in i..(Len(s) + 1) :
    /\ \A k \in i..(j - 1) : s[k] \in {"/", "\\"}
    /\ j = Len(s) + 1 \/ s[j] \notin {"/", "\\"}

HostStops == {"/", "\\", "?", "#", ":"}

\* new URL(url) throws
NoUrl == [ok |-> FALSE, hostname |-> <<>>]

\* [ok |-> did the constructor return, hostname |-> urlObj.hostname]
ParseUrl(url) ==
  Let(SchemeEnd(url), LAMBDA c :
    IF c = 0 THEN NoUrl
    ELSE IF LowerText(SubSeq(url, 1, c - 1)) \in {<<"h","t","t","p">>, <<"h","t","t","p","s">>}
         THEN Let(LowerText(TakeUntil(url, SkipSlashes(url, c + 1), HostStops)), LAMBDA host :
                IF host = <<>> THEN NoUrl ELSE [ok |-> TRUE, hostname |-> host])
         ELSE IF c + 2 <= Len(url) /\ url[c + 1] = "/" /\ url[c + 2] = "/"
              THEN [ok |-> TRUE, hostname |-> LowerText(TakeUntil(url, c + 3, HostStops))]
              ELSE [ok |-> TRUE, hostname |-> <<>>])

\* hostname.replace(/^www\./, '')
StripWww(h) ==
  IF Len(h) >= 4 /\ SubSeq(h, 1, 4) = <<"w","w","w",".">> THEN SubSeq(h, 5, Len(h)) ELSE h

formatUrl(url) ==
  Let(ParseUrl(url), LAMBDA u : IF u.ok THEN StripWww(u.hostname) ELSE url)

----------------------------------------------------------------------------
(* GDGParser of src/gdg_parser.js: the JSON-articles variant *)

extractSource(article) ==
  IF article.source # <<>> THEN article.source
  ELSE IF article.url # <<>> THEN formatUrl(article.url)
  ELSE IF article.domain # <<>> THEN article.domain
  ELSE <<"N","e","w","s"," ","A","r","t","i","c","l","e">>

\* an extractTextContent without the tests of length
extractTextContent_anyLength(article) ==
  IF article.title # <<>> THEN article.title
  ELSE IF article.description # <<>> THEN article.description
  ELSE article.content

\* the empty sequence stands for the null the code returns
extractTextContent(article) ==
  IF article.title # <<>> /\ Len(article.title) > 10 THEN article.title
  ELSE IF article.description # <<>> /\ Len(article.description) > 10 THEN article.description
  ELSE IF article.content # <<>> /\ Len(article.content) > 10 THEN article.content
  ELSE <<>>

getSampleData ==
  [entries |-> <<
    [id |-> <<"G","D","G","-","2","0","1","8","-","0","8","-","2","7","-","0","0","1">>,
     source |-> <<"W","h","i","t","e"," ","H","o","u","s","e"," ","P","r","e","s","s"," ","R","e","l","e","a","s","e">>,
     changes |-> <<[from |-> <<"T","h","e"," ","a","d","m","i","n","i","s","t","r","a","t","i","o","n"," ","a","c","k","n","o","w","l","e","d","g","e","s"," ","s","e","r","i","o","u","s"," ","c","o","n","c","e","r","n","s"," ","a","b","o","u","t"," ","c","l","i","m","a","t","e"," ","c","h","a","n","g","e"," ","i","m","p","a","c","t","s",".">>,
                    to |-> <<"T","h","e"," ","a","d","m","i","n","i","s","t","r","a","t","i","o","n"," ","i","s"," ","m","o","n","i","t","o","r","i","n","g"," ","e","n","v","i","r","o","n","m","e","n","t","a","l"," ","c","o","n","d","i","t","i","o","n","s",".">>]>>],
    [id |-> <<"G","D","G","-","2","0","1","8","-","0","8","-","2","7","-","0","0","2">>,
     source |-> <<"D","e","p","a","r","t","m","e","n","t"," ","o","f"," ","D","e","f","e","n","s","e"," ","M","e","m","o">>,
     changes |-> <<[from |-> <<"M","i","l","i","t","a","r","y"," ","o","p","e","r","a","t","i","o","n","s"," ","r","e","s","u","l","t","e","d"," ","i","n"," ","2","4"," ","c","i","v","i","l","i","a","n"," ","c","a","s","u","a","l","t","i","e","s"," ","i","n"," ","t","h","e"," ","r","e","g","i","o","n",".">>,
                    to |-> <<"M","i","l","i","t","a","r","y"," ","o","p","e","r","a","t","i","o","n","s"," ","i","n"," ","t","h","e"," ","r","e","g","i","o","n"," ","a","r","e"," ","u","n","d","e","r"," ","r","e","v","i","e","w",".">>]>>] >>]

\* a loop that runs to the end of the feed
LoopContinues_toEnd(i, n, len) == i <= n

\* the condition of the for loops of parseGDGData; i counts from 1
LoopContinues(i, n, len) == i <= n /\ len < maxEntries

\* the body of the loop for one article that is an object
ProcessArticle(entries, article) ==
  Let(extractTextContent(article), LAMBDA originalText :
    IF originalText # <<>>
    THEN addEntry(entries,
                  [source |-> extractSource(article),
                   changes |-> <<[from |-> originalText,
                                  to |-> createRedactedVersion(originalText),
                                  type |-> "text"]>>])
    ELSE entries)

RECURSIVE ArticlesLoop(_, _, _)
\* the for loop over data.articles: an article that is null makes
\* extractSource throw a TypeError, which ends the loop.  st.consumed is
\* the number of articles the loop took up, st.lenAtLast the length of
\* processedEntries when it took up the last of them.
ArticlesLoop(articles, i, st) ==
  IF ~LoopContinues(i, Len(articles), Len(st.entries)) THEN st
  ELSE IF articles[i].nul
       THEN [st EXCEPT !.threw = TRUE, !.consumed = i, !.lenAtLast = Len(st.entries)]
       ELSE ArticlesLoop(articles, i + 1,
              [entries |-> ProcessArticle(st.entries, articles[i]),
               threw |-> FALSE, consumed |-> i, lenAtLast |-> Len(st.entries)])

\* the state of the loop before its first round
LoopStart(entries) == [entries |-> entries, threw |-> FALSE, consumed |-> 0, lenAtLast |-> 0]

\* a parseGDGData without the catch block's return
parseGDGData_uncaught(entries, data) ==
  IF data.kind \in {"null", "noArticles", "notArray"}
  THEN LoopStart(entries) @@ [value |-> getSampleData]
  ELSE Let(ArticlesLoop(data.articles, 1, LoopStart(entries)), LAMBDA st :
         st @@ [value |-> [entries |-> st.entries]])

\* data.kind tells which JSON value data is: "null" (null or undefined),
\* "noArticles" (an object without articles), "notArray" (articles is not an
\* array), "array".  The result: value is what the call returns, entries the
\* new processedEntries.
parseGDGData(entries, data) ==
  IF data.kind \in {"null", "noArticles", "notArray"}
  THEN LoopStart(entries) @@ [value |-> getSampleData]
  ELSE Let(ArticlesLoop(data.articles, 1, LoopStart(entries)), LAMBDA st :
         st @@ [value |-> IF st.threw THEN getSampleData ELSE [entries |-> st.entries]])

----------------------------------------------------------------------------
(* GDGParser of src/unnamed/part_001: the RSS/XML variant *)

extractDomainFromUrl(url) ==
  Let(ParseUrl(url), LAMBDA u : IF u.ok THEN StripWww(u.hostname) ELSE <<>>)

\* text.replace(/\n/g, ' ')
NewlinesToSpaces(s) == [k \in 1..Len(s) |-> IF s[k] = "\n" THEN " " ELSE s[k]]

\* cleaned.replace(/\s+/g, ' '): the pieces between the runs of white space,
\* joined by one space
CollapseSpaces(s) == Join(SplitWs(s), <<" ">>)

cleanText(text) ==
  IF text = <<>> THEN <<>>
  ELSE Let(Trim(CollapseSpaces(NewlinesToSpaces(text))), LAMBDA cleaned :
         IF Len(cleaned) < 10 THEN cleaned \o <<" ","[","c","o","n","t","e","n","t"," ","r","e","d","a","c","t","e","d","]">> ELSE cleaned)

\* a separator starts at i when the white space from i on ends at "-" or ":"
SepStartsAt(s, i) ==
  Let(SkipSpaces(s, i), LAMBDA j : j <= Len(s) /\ s[j] \in {"-", ":"})

\* the first position from i on where a separator starts
NextSep(s, i) ==
  CHOOSE j \in i..(Len(s) + 1) :
    /\ j = Len(s) + 1 \/ SepStartsAt(s, j)
    /\ \A k \in i..(j - 1) : ~SepStartsAt(s, k)

RECURSIVE SplitSepFrom(_, _, _)
\* the pieces of s from position i on, after the pieces acc; a separator
\* takes the white space after its "-" or ":" too
SplitSepFrom(s, i, acc) ==
  Let(NextSep(s, i), LAMBDA j :
    IF j > Len(s) THEN Append(acc, SubSeq(s, i, j - 1))
    ELSE SplitSepFrom(s, SkipSpaces(s, SkipSpaces(s, j) + 1), Append(acc, SubSeq(s, i, j - 1))))

\* description.split(/\s*\-\s*|\s*:\s*/)
SplitSep(s) == SplitSepFrom(s, 1, <<>>)

\* a sequence computed once, element by element
Table(f) == f \o <<>>

RECURSIVE ReplaceFrom(_, _, _, _, _)
\* String.prototype.replace with a g flag, from position i on; lens[k] is the
\* length of the match that starts at k, 0 when there is none
ReplaceFrom(s, lens, rep, i, acc) ==
  Let(CHOOSE j \in i..(Len(s) + 1) :
        /\ j = Len(s) + 1 \/ lens[j] > 0
        /\ \A k \in i..(j - 1) : lens[k] = 0,
      LAMBDA j :
        IF j > Len(s) THEN acc \o SubSeq(s, i, Len(s))
        ELSE ReplaceFrom(s, lens, rep, j + lens[j], acc \o SubSeq(s, i, j - 1) \o rep))

\* the end of the longest run of digits that starts at i (i when there is none)
DigitRunEnd(s, i) ==
  CHOOSE j \in i..(Len(s) + 1) :
    /\ j = Len(s) + 1 \/ s[j] \notin Digits
    /\ \A k \in i..(j - 1) : s[k] \in Digits

\* the length of the match of /\b\d+(\.\d+)?%\b/ at i
PercentMatchLen(s, i) ==
  IF s[i] \in Digits /\ WordBoundary(s, i)
  THEN Let({e \in OptFraction(s, DigitRunEnds(s, i)) :
              e <= Len(s) /\ s[e] = "%" /\ WordBoundary(s, e + 1)},
           LAMBDA ends : IF ends # {} THEN (CHOOSE e \in ends : TRUE) + 1 - i ELSE 0)
  ELSE 0

\* the length of the match of /\b\d+\b/ at i
IntegerMatchLen(s, i) ==
  IF s[i] \in Digits /\ WordBoundary(s, i)
  THEN Let(DigitRunEnd(s, i), LAMBDA j : IF WordBoundary(s, j) THEN j - i ELSE 0)
  ELSE 0

\* the length of the match of new RegExp(`\\b${word}\\b`, 'gi') at i
WordMatchLen(s, i, word) ==
  IF MatchesAt(s, i, word) /\ WordBoundary(s, i) /\ WordBoundary(s, i + Len(word))
  THEN Len(word) ELSE 0

\* redacted.replace(/\b\d+(\.\d+)?%\b/g, 'a percentage')
ReplacePercentages(s) ==
  ReplaceFrom(s, Table([i \in 1..Len(s) |-> PercentMatchLen(s, i)]), <<"a"," ","p","e","r","c","e","n","t","a","g","e">>, 1, <<>>)

\* redacted.replace(/\b\d+\b/g, 'several')
ReplaceIntegers(s) ==
  ReplaceFrom(s, Table([i \in 1..Len(s) |-> IntegerMatchLen(s, i)]), <<"s","e","v","e","r","a","l">>, 1, <<>>)

ReplaceWord(s, word, rep) ==
  ReplaceFrom(s, Table([i \in 1..Len(s) |-> WordMatchLen(s, i, word)]), rep, 1, <<>>)

locations ==
  << <<"A","f","g","h","a","n","i","s","t","a","n">>, <<"I","r","a","q">>, <<"S","y","r","i","a">>, <<"Y","e","m","e","n">>, <<"L","i","b","y","a">>, <<"U","k","r","a","i","n","e">>, <<"R","u","s","s","i","a">>, <<"C","h","i","n","a">> >>

wordReplacements ==
  << <<<<"c","r","i","s","i","s">>, <<"s","i","t","u","a","t","i","o","n">>>>,
     <<<<"d","i","s","a","s","t","e","r">>, <<"e","v","e","n","t">>>>,
     <<<<"c","a","t","a","s","t","r","o","p","h","i","c">>, <<"s","i","g","n","i","f","i","c","a","n","t">>>>,
     <<<<"f","a","i","l","e","d">>, <<"d","i","d"," ","n","o","t"," ","m","e","e","t"," ","e","x","p","e","c","t","a","t","i","o","n","s">>>>,
     <<<<"c","o","r","r","u","p","t","i","o","n">>, <<"i","r","r","e","g","u","l","a","r","i","t","i","e","s">>>>,
     <<<<"v","i","o","l","a","t","e","d">>, <<"m","a","y"," ","n","o","t"," ","h","a","v","e"," ","f","o","l","l","o","w","e","d">>>>,
     <<<<"i","l","l","e","g","a","l">>, <<"q","u","e","s","t","i","o","n","a","b","l","e">>>>,
     <<<<"d","a","n","g","e","r","o","u","s">>, <<"c","o","n","c","e","r","n","i","n","g">>>> >>

RECURSIVE ReplaceLocations(_, _)
\* locations.forEach, from the k-th location on
ReplaceLocations(s, k) ==
  IF k > Len(locations) THEN s
  ELSE ReplaceLocations(ReplaceWord(s, locations[k], <<"t","h","e"," ","r","e","g","i","o","n">>), k + 1)

RECURSIVE ReplaceStrongWords(_, _)
\* Object.entries(wordReplacements).forEach, from the k-th pair on
ReplaceStrongWords(s, k) ==
  IF k > Len(wordReplacements) THEN s
  ELSE ReplaceStrongWords(ReplaceWord(s, wordReplacements[k][1], wordReplacements[k][2]), k + 1)

createRedactedVersion_xml(text) ==
  ReplaceStrongWords(ReplaceLocations(ReplaceIntegers(ReplacePercentages(text)), 1), 1)

generateOriginalText(link) == <<"O","r","i","g","i","n","a","l"," ","t","e","x","t"," ","f","o","r"," ">> \o link

extractSource_xml(entry) ==
  IF entry.source # <<>> THEN entry.source
  ELSE IF entry.page_url # <<>> THEN formatUrl(entry.page_url)
  ELSE IF entry.url # <<>> THEN formatUrl(entry.url)
  ELSE IF entry.organization # <<>> THEN entry.organization
  ELSE IF entry.department # <<>> THEN entry.department
  ELSE <<"G","o","v","e","r","n","m","e","n","t"," ","D","o","c","u","m","e","n","t">>

getSampleData_xml ==
  [entries |-> <<
    [id |-> <<"G","D","G","-","2","0","1","8","-","0","8","-","2","7","-","0","0","1">>,
     source |-> <<"W","h","i","t","e"," ","H","o","u","s","e"," ","P","r","e","s","s"," ","R","e","l","e","a","s","e">>,
     changes |-> <<[from |-> <<"T","h","e"," ","a","d","m","i","n","i","s","t","r","a","t","i","o","n"," ","a","c","k","n","o","w","l","e","d","g","e","s"," ","s","e","r","i","o","u","s"," ","c","o","n","c","e","r","n","s"," ","a","b","o","u","t"," ","c","l","i","m","a","t","e"," ","c","h","a","n","g","e"," ","i","m","p","a","c","t","s",".">>,
                    to |-> <<"T","h","e"," ","a","d","m","i","n","i","s","t","r","a","t","i","o","n"," ","i","s"," ","m","o","n","i","t","o","r","i","n","g"," ","e","n","v","i","r","o","n","m","e","n","t","a","l"," ","c","o","n","d","i","t","i","o","n","s",".">>]>>],
    [id |-> <<"G","D","G","-","2","0","1","8","-","0","8","-","2","7","-","0","0","2">>,
     source |-> <<"D","e","p","a","r","t","m","e","n","t"," ","o","f"," ","D","e","f","e","n","s","e"," ","M","e","m","o">>,
     changes |-> <<[from |-> <<"M","i","l","i","t","a","r","y"," ","o","p","e","r","a","t","i","o","n","s"," ","r","e","s","u","l","t","e","d"," ","i","n"," ","2","4"," ","c","i","v","i","l","i","a","n"," ","c","a","s","u","a","l","t","i","e","s"," ","i","n"," ","t","h","e"," ","r","e","g","i","o","n",".">>,
                    to |-> <<"M","i","l","i","t","a","r","y"," ","o","p","e","r","a","t","i","o","n","s"," ","i","n"," ","t","h","e"," ","r","e","g","i","o","n"," ","a","r","e"," ","u","n","d","e","r"," ","r","e","v","i","e","w",".">>]>>],
    [id |-> <<"G","D","G","-","2","0","1","8","-","0","8","-","2","7","-","0","0","3">>,
     source |-> <<"C","D","C"," ","H","e","a","l","t","h"," ","A","d","v","i","s","o","r","y">>,
     changes |-> <<[from |-> <<"T","h","e"," ","o","u","t","b","r","e","a","k"," ","h","a","s"," ","i","n","f","e","c","t","e","d"," ","o","v","e","r"," ","1",",","0","0","0"," ","p","e","o","p","l","e"," ","a","c","r","o","s","s"," ","1","2"," ","s","t","a","t","e","s",".">>,
                    to |-> <<"H","e","a","l","t","h"," ","o","f","f","i","c","i","a","l","s"," ","a","r","e"," ","m","o","n","i","t","o","r","i","n","g"," ","c","a","s","e","s"," ","o","f"," ","t","h","e"," ","i","l","l","n","e","s","s",".">>]>>],
    [id |-> <<"G","D","G","-","2","0","1","8","-","0","8","-","2","7","-","0","0","4">>,
     source |-> <<"E","P","A"," ","E","n","v","i","r","o","n","m","e","n","t","a","l"," ","A","s","s","e","s","s","m","e","n","t">>,
     changes |-> <<[from |-> <<"C","h","e","m","i","c","a","l"," ","l","e","v","e","l","s"," ","i","n"," ","t","h","e"," ","w","a","t","e","r"," ","e","x","c","e","e","d"," ","f","e","d","e","r","a","l"," ","s","a","f","e","t","y"," ","s","t","a","n","d","a","r","d","s"," ","b","y"," ","3","0","0","%",".">>,
                    to |-> <<"W","a","t","e","r"," ","q","u","a","l","i","t","y"," ","t","e","s","t","i","n","g"," ","c","o","n","t","i","n","u","e","s"," ","i","n"," ","a","f","f","e","c","t","e","d"," ","a","r","e","a","s",".">>]>>],
    [id |-> <<"G","D","G","-","2","0","1","8","-","0","8","-","2","7","-","0","0","5">>,
     source |-> <<"D","e","p","a","r","t","m","e","n","t"," ","o","f"," ","J","u","s","t","i","c","e"," ","S","t","a","t","e","m","e","n","t">>,
     changes |-> <<[from |-> <<"T","h","e"," ","i","n","v","e","s","t","i","g","a","t","i","o","n"," ","f","o","u","n","d"," ","e","v","i","d","e","n","c","e"," ","o","f"," ","s","y","s","t","e","m","a","t","i","c"," ","c","o","r","r","u","p","t","i","o","n"," ","a","t"," ","m","u","l","t","i","p","l","e"," ","l","e","v","e","l","s",".">>,
                    to |-> <<"T","h","e"," ","i","n","v","e","s","t","i","g","a","t","i","o","n"," ","i","s"," ","o","n","g","o","i","n","g"," ","a","n","d"," ","n","o"," ","c","o","n","c","l","u","s","i","o","n","s"," ","h","a","v","e"," ","b","e","e","n"," ","r","e","a","c","h","e","d",".">>]>>],
    [id |-> <<"G","D","G","-","2","0","1","8","-","0","8","-","2","7","-","0","0","6">>,
     source |-> <<"F","e","d","e","r","a","l"," ","R","e","s","e","r","v","e"," ","E","c","o","n","o","m","i","c"," ","O","u","t","l","o","o","k">>,
     changes |-> <<[from |-> <<"E","c","o","n","o","m","i","c"," ","i","n","d","i","c","a","t","o","r","s"," ","s","u","g","g","e","s","t"," ","a"," ","s","i","g","n","i","f","i","c","a","n","t"," ","r","e","c","e","s","s","i","o","n"," ","i","s"," ","l","i","k","e","l","y"," ","w","i","t","h","i","n"," ","6"," ","m","o","n","t","h","s",".">>,
                    to |-> <<"E","c","o","n","o","m","i","c"," ","c","o","n","d","i","t","i","o","n","s"," ","a","r","e"," ","b","e","i","n","g"," ","c","l","o","s","e","l","y"," ","m","o","n","i","t","o","r","e","d",".">>]>>],
    [id |-> <<"G","D","G","-","2","0","1","8","-","0","8","-","2","7","-","0","0","7">>,
     source |-> <<"D","e","p","a","r","t","m","e","n","t"," ","o","f"," ","E","d","u","c","a","t","i","o","n"," ","R","e","p","o","r","t">>,
     changes |-> <<[from |-> <<"T","e","s","t"," ","s","c","o","r","e","s"," ","s","h","o","w"," ","a"," ","1","5","%"," ","d","e","c","l","i","n","e"," ","i","n"," ","s","t","u","d","e","n","t"," ","p","e","r","f","o","r","m","a","n","c","e"," ","n","a","t","i","o","n","w","i","d","e",".">>,
                    to |-> <<"E","d","u","c","a","t","i","o","n","a","l"," ","a","s","s","e","s","s","m","e","n","t"," ","m","e","t","h","o","d","s"," ","a","r","e"," ","b","e","i","n","g"," ","e","v","a","l","u","a","t","e","d",".">>]>>],
    [id |-> <<"G","D","G","-","2","0","1","8","-","0","8","-","2","7","-","0","0","8">>,
     source |-> <<"F","D","A"," ","D","r","u","g"," ","S","a","f","e","t","y"," ","C","o","m","m","u","n","i","c","a","t","i","o","n">>,
     changes |-> <<[from |-> <<"T","h","e"," ","m","e","d","i","c","a","t","i","o","n"," ","h","a","s"," ","b","e","e","n"," ","l","i","n","k","e","d"," ","t","o"," ","3","7"," ","d","e","a","t","h","s"," ","a","n","d"," ","o","v","e","r"," ","2","0","0"," ","s","e","v","e","r","e"," ","a","d","v","e","r","s","e"," ","r","e","a","c","t","i","o","n","s",".">>,
                    to |-> <<"T","h","e"," ","m","e","d","i","c","a","t","i","o","n","'","s"," ","s","a","f","e","t","y"," ","p","r","o","f","i","l","e"," ","i","s"," ","u","n","d","e","r"," ","c","o","n","t","i","n","u","e","d"," ","e","v","a","l","u","a","t","i","o","n",".">>]>>],
    [id |-> <<"G","D","G","-","2","0","1","8","-","0","8","-","2","7","-","0","0","9">>,
     source |-> <<"D","e","p","a","r","t","m","e","n","t"," ","o","f"," ","H","o","m","e","l","a","n","d"," ","S","e","c","u","r","i","t","y"," ","A","l","e","r","t">>,
     changes |-> <<[from |-> <<"C","r","i","t","i","c","a","l"," ","i","n","f","r","a","s","t","r","u","c","t","u","r","e"," ","v","u","l","n","e","r","a","b","i","l","i","t","i","e","s"," ","h","a","v","e"," ","b","e","e","n"," ","e","x","p","l","o","i","t","e","d"," ","b","y"," ","f","o","r","e","i","g","n"," ","a","c","t","o","r","s",".">>,
                    to |-> <<"I","n","f","r","a","s","t","r","u","c","t","u","r","e"," ","s","e","c","u","r","i","t","y"," ","p","r","o","t","o","c","o","l","s"," ","a","r","e"," ","b","e","i","n","g"," ","u","p","d","a","t","e","d",".">>]>>],
    [id |-> <<"G","D","G","-","2","0","1","8","-","0","8","-","2","7","-","0","1","0">>,
     source |-> <<"V","e","t","e","r","a","n","s"," ","A","f","f","a","i","r","s"," ","I","n","t","e","r","n","a","l"," ","M","e","m","o">>,
     changes |-> <<[from |-> <<"W","a","i","t"," ","t","i","m","e","s"," ","f","o","r"," ","c","r","i","t","i","c","a","l"," ","c","a","r","e"," ","h","a","v","e"," ","i","n","c","r","e","a","s","e","d"," ","t","o"," ","a","n"," ","a","v","e","r","a","g","e"," ","o","f"," ","4","7"," ","d","a","y","s",".">>,
                    to |-> <<"P","a","t","i","e","n","t"," ","c","a","r","e"," ","s","c","h","e","d","u","l","i","n","g"," ","p","r","o","c","e","d","u","r","e","s"," ","a","r","e"," ","b","e","i","n","g"," ","o","p","t","i","m","i","z","e","d",".">>]>>] >>]

\* the change the loop body makes from a description, if it makes one
DescriptionChanges(description) ==
  IF description # <<>>
  THEN Let(SplitSep(description), LAMBDA parts :
         IF Len(parts) >= 2
         THEN <<[from |-> cleanText(parts[1]), to |-> cleanText(Join(Tail(parts), <<" ">>))]>>
         ELSE <<>>)
  ELSE <<>>

\* the synthetic change the loop body makes from a link
SyntheticChanges(link) ==
  Let(generateOriginalText(link), LAMBDA originalText :
    <<[from |-> originalText, to |-> createRedactedVersion_xml(originalText)]>>)

\* the changes the loop body collects for one item
ItemChanges(item) ==
  Let(DescriptionChanges(item.description), LAMBDA changes :
    IF Len(changes) = 0 /\ item.link # <<>> THEN SyntheticChanges(item.link) ELSE changes)

\* extractDomainFromUrl(link) || title
ItemSource(item) ==
  Let(extractDomainFromUrl(item.link), LAMBDA domain :
    IF domain # <<>> THEN domain
    ELSE IF item.title # <<>> THEN item.title ELSE <<"G","o","v","e","r","n","m","e","n","t"," ","D","o","c","u","m","e","n","t">>)

\* the body of the loop for one item of the feed
ProcessItem(entries, item) ==
  Let(ItemChanges(item), LAMBDA changes :
    IF Len(changes) > 0
    THEN addEntry(entries, [source |-> ItemSource(item), changes |-> changes])
    ELSE entries)

RECURSIVE ItemsLoop(_, _, _)
ItemsLoop(items, i, st) ==
  IF ~LoopContinues(i, Len(items), Len(st.entries)) THEN st
  ELSE ItemsLoop(items, i + 1,
         [entries |-> ProcessItem(st.entries, items[i]),
          threw |-> FALSE, consumed |-> i, lenAtLast |-> Len(st.entries)])

minEntries == 10

\* a parseGDGData without the test for enough entries
parseGDGData_xml_anyLength(entries, items) ==
  Let(ItemsLoop(items, 1, LoopStart(entries)), LAMBDA st :
    st @@ [value |-> [entries |-> st.entries]])

\* new DOMParser() throws where no DOMParser is defined (outside a browser),
\* and the catch block returns the sample data
parseGDGData_xml_thrown(entries) ==
  [LoopStart(entries) EXCEPT !.threw = TRUE] @@ [value |-> getSampleData_xml]

\* items are the item elements of the parsed feed; a text that is no XML
\* parses to a document with no item
parseGDGData_xml(entries, items) ==
  Let(ItemsLoop(items, 1, LoopStart(entries)), LAMBDA st :
    st @@ [value |-> IF Len(st.entries) < minEntries
                     THEN getSampleData_xml
                     ELSE [entries |-> st.entries]])

textFields == <<"content", "text", "body", "description", "summary", "title">>

RECURSIVE ExtractFromFields(_, _, _)
\* the for loop over textFields, from the k-th field on
ExtractFromFields(entries, entry, k) ==
  IF k > Len(textFields) THEN entries
  ELSE IF entry[textFields[k]] # <<>> /\ Len(entry[textFields[k]]) > 20
  THEN Let(createRedactedVersion_xml(entry[textFields[k]]), LAMBDA redactedText :
         IF entry[textFields[k]] # redactedText
         THEN addEntry(entries, [source |-> extractSource_xml(entry),
                                 changes |-> <<[from |-> entry[textFields[k]],
                                                to |-> redactedText]>>])
         ELSE ExtractFromFields(entries, entry, k + 1))
  ELSE ExtractFromFields(entries, entry, k + 1)

extractTextContent_xml(entries, entry) == ExtractFromFields(entries, entry, 1)

\* does the text hold pat at position i, compared exactly
HasAt(s, i, pat) ==
  i >= 1 /\ i + Len(pat) - 1 <= Len(s) /\ SubSeq(s, i, i + Len(pat) - 1) = pat

\* the first position from i on that holds a double quote
QuoteFrom(s, i) ==
  CHOOSE j \in i..(Len(s) + 1) :
    /\ j = Len(s) + 1 \/ s[j] = "\""
    /\ \A k \in i..(j - 1) : s[k] # "\""

\* the position after pat when the text holds it at p, 0 when it does not
\* or when p is 0
AfterText(s, p, pat) == IF p > 0 /\ HasAt(s, p, pat) THEN p + Len(pat) ELSE 0

\* the position after \s* matched at p, 0 when p is 0
AfterSpaces(s, p) == IF p > 0 THEN SkipSpaces(s, p) ELSE 0

\* the position of the quote that ends [^"]+ matched at p, 0 when there
\* is none or when p is 0
EndOfQuoted(s, p) ==
  IF p > 0
  THEN Let(QuoteFrom(s, p), LAMBDA q : IF q > p /\ q <= Len(s) THEN q ELSE 0)
  ELSE 0

\* the position after "from"\s*:\s*" matched at i
AfterFromKey(s, i) ==
  AfterText(s, AfterSpaces(s, AfterText(s, AfterSpaces(s, AfterText(s, i, <<"\"","f","r","o","m","\"">>)), <<":">>)),
            <<"\"">>)

\* the position after "\s*,\s*"to"\s*:\s*" matched at q
AfterToKey(s, q) ==
  AfterText(s, AfterSpaces(s, AfterText(s, AfterSpaces(s,
    AfterText(s, AfterSpaces(s, AfterText(s, AfterSpaces(s, AfterText(s, q, <<"\"">>)), <<",">>)),
              <<"\"","t","o","\"">>)), <<":">>)), <<"\"">>)

NoMatch(i) == [ok |-> FALSE, m1 |-> <<>>, m2 |-> <<>>, end |-> i]

\* the match of /"from"\s*:\s*"([^"]+)"\s*,\s*"to"\s*:\s*"([^"]+)"/ at i
FromToMatch(s, i) ==
  Let(AfterFromKey(s, i), LAMBDA a :
  Let(EndOfQuoted(s, a), LAMBDA q :
  Let(AfterToKey(s, q), LAMBDA b :
  Let(EndOfQuoted(s, b), LAMBDA r :
    IF r > 0
    THEN [ok |-> TRUE, m1 |-> SubSeq(s, a, q - 1), m2 |-> SubSeq(s, b, r - 1), end |-> r + 1]
    ELSE NoMatch(i)))))

minContent == 50

\* the match of /"([^"]{50,})"/ at i
ContentMatch(s, i) ==
  IF i >= 1 /\ i <= Len(s) /\ s[i] = "\""
  THEN Let(QuoteFrom(s, i + 1), LAMBDA q :
         IF q <= Len(s) /\ q - (i + 1) >= minContent
         THEN [ok |-> TRUE, m1 |-> SubSeq(s, i + 1, q - 1), m2 |-> <<>>, end |-> q + 1]
         ELSE NoMatch(i))
  ELSE NoMatch(i)

\* the first position from i on where oks holds TRUE, 0 when there is none
FirstMatch(oks, i) ==
  IF \E j \in i..Len(oks) : oks[j]
  THEN CHOOSE j \in i..Len(oks) : oks[j] /\ \A k \in i..(j - 1) : ~oks[k]
  ELSE 0

RECURSIVE FromToLoop(_, _, _, _)
\* while ((match = fromToRegex.exec(line)) !== null), lastIndex at i;
\* oks[j] tells whether the expression matches at j
FromToLoop(entries, line, oks, i) ==
  Let(FirstMatch(oks, i), LAMBDA j :
    IF j = 0 THEN entries
    ELSE Let(FromToMatch(line, j), LAMBDA m :
           FromToLoop(addEntry(entries, [source |-> <<"G","D","E","L","T"," ","P","r","o","j","e","c","t">>,
                                         changes |-> <<[from |-> cleanText(m.m1),
                                                        to |-> cleanText(m.m2)]>>]),
                      line, oks, m.end)))

RECURSIVE ContentLoop(_, _, _, _)
\* while ((match = contentRegex.exec(line)) !== null), lastIndex at i
ContentLoop(entries, line, oks, i) ==
  Let(FirstMatch(oks, i), LAMBDA j :
    IF j = 0 THEN entries
    ELSE Let(SubSeq(line, j + 1, QuoteFrom(line, j + 1) - 1), LAMBDA originalText :
         Let(createRedactedVersion_xml(originalText), LAMBDA redactedText :
           ContentLoop(IF originalText # redactedText
                       THEN addEntry(entries, [source |-> <<"G","D","E","L","T"," ","C","o","n","t","e","n","t">>,
                                               changes |-> <<[from |-> originalText,
                                                              to |-> redactedText]>>])
                       ELSE entries,
                       line, oks, QuoteFrom(line, j + 1) + 1))))

extractChangesWithRegex(entries, line) ==
  ContentLoop(FromToLoop(entries, line, Table([j \in 1..Len(line) |-> FromToMatch(line, j).ok]), 1),
              line, Table([j \in 1..Len(line) |-> ContentMatch(line, j).ok]), 1)

----------------------------------------------------------------------------
(* The calls made on one parser, and the arguments they are given *)

\* the sequences over S of length at most n
SeqsUpTo(S, n) == UNION {[1..k -> S] : k \in 0..n}

Article(source, url, domain, title, description, content) ==
  [nul |-> FALSE, source |-> source, url |-> url, domain |-> domain,
   title |-> title, description |-> description, content |-> content]

\* an element of data.articles that is null
NullArticle == [Article(<<>>, <<>>, <<>>, <<>>, <<>>, <<>>) EXCEPT !.nul = TRUE]

\* an article with a title of sensitive words
TitledArticle == Article(<<"B","B","C">>, <<>>, <<>>, <<"r","i","o","t"," ","i","n"," ","c","i","t","y"," ","5">>, <<>>, <<>>)

\* an article whose title is white space only
BlankArticle == Article(<<>>, <<>>, <<>>, <<" "," "," "," "," "," "," "," "," "," "," ">>, <<>>, <<>>)

\* an article with a short title and a description
DescribedArticle == Article(<<>>, <<"h","t","t","p",":","/","/","w","w","w",".","a",".","g","o","v","/","x">>, <<>>, <<"s","h","o","r","t">>, <<"n","o","t","h","i","n","g"," ","t","o"," ","s","e","e">>, <<>>)

\* an article with a content only
ContentArticle == Article(<<>>, <<>>, <<"b",".","o","r","g">>, <<>>, <<>>, <<"s","e","c","r","e","t"," ","p","r","o","b","e"," ","1","2">>)

\* an article with no text long enough
ShortArticle == Article(<<>>, <<"m","a","i","l","t","o",":","x">>, <<>>, <<"t","o","o"," ","s","h","o","r","t">>, <<>>, <<>>)

Articles(a) == [kind |-> "array", articles |-> a]

\* the values parseGDGData is given in the JSON-articles variant
DataPool ==
  {[kind |-> k, articles |-> <<>>] : k \in {"null", "noArticles", "notArray"}}
    \cup { Articles(<<>>),
           Articles(<<TitledArticle>>),
           Articles(<<BlankArticle>>),
           Articles(<<DescribedArticle, ContentArticle>>),
           Articles(<<ShortArticle, TitledArticle>>),
           Articles(<<NullArticle>>),
           Articles(<<TitledArticle, NullArticle>>),
           Articles(<<NullArticle, TitledArticle>>),
           Articles(<<TitledArticle, ContentArticle, DescribedArticle>>) }

Item(title, description, link) ==
  [title |-> title, description |-> description, link |-> link]

\* an item whose description holds a separator
SplitItem == Item(<<"T","i","t","l","e">>, <<"o","l","d"," ","t","e","x","t"," ","-"," ","n","e","w"," ","t","e","x","t">>, <<"h","t","t","p",":","/","/","w","w","w",".","a",".","g","o","v","/","1">>)

\* an item whose description starts with the separator
LeadingSepItem == Item(<<>>, <<"-"," ","n","e","w"," ","t","e","x","t">>, <<"h","t","t","p",":","/","/","w","w","w",".","a",".","g","o","v","/","2">>)

\* an item whose description holds no separator
PlainItem == Item(<<>>, <<"n","o"," ","s","e","p","a","r","a","t","o","r">>, <<"h","t","t","p","s",":","/","/","b",".","o","r","g","/","3">>)

\* an item with a link only
LinkItem == Item(<<>>, <<>>, <<"h","t","t","p",":","/","/","a",".","g","o","v","/","4">>)

\* an item whose link is no URL
BadLinkItem == Item(<<"T","i","t","l","e">>, <<>>, <<"n","o","t"," ","a"," ","u","r","l">>)

\* an item with nothing
EmptyItem == Item(<<>>, <<>>, <<>>)

\* the feeds parseGDGData is given in the RSS/XML variant, as the item
\* elements of the parsed document
FeedPool ==
  { <<>>,
    <<SplitItem>>,
    <<LeadingSepItem>>,
    <<PlainItem, EmptyItem>>,
    <<LinkItem, SplitItem>>,
    <<BadLinkItem>>,
    <<EmptyItem, SplitItem, LinkItem>> }

Change(from, to) == [from |-> from, to |-> to]

ChangePool ==
  { Change(<<"o","l","d">>, <<"n","e","w">>), Change(<<>>, <<"n","e","w">>), Change(<<"o","l","d">>, <<" ","\n">>), Change(<<" ">>, <<>>) }

EntryPool == {[source |-> <<"s","r","c">>, changes |-> c] : c \in SeqsUpTo(ChangePool, 2)}

TextObject(source, page_url, content, title) ==
  [source |-> source, page_url |-> page_url, url |-> <<>>, organization |-> <<>>,
   department |-> <<>>, content |-> content, text |-> <<>>, body |-> <<>>,
   description |-> <<>>, summary |-> <<>>, title |-> title]

\* a content the redaction changes, one it leaves alone with a title it
\* changes, texts that are too short
ObjectPool ==
  { TextObject(<<"D","o","D">>, <<>>, <<"1","2"," ","c","a","s","u","a","l","t","i","e","s"," ","i","n"," ","I","r","a","q"," ","t","o","d","a","y">>, <<>>),
    TextObject(<<>>, <<"h","t","t","p",":","/","/","w","w","w",".","a",".","g","o","v","/","p">>, <<"n","o","t","h","i","n","g"," ","t","o"," ","s","e","e"," ","i","n"," ","t","h","i","s"," ","t","e","x","t">>, <<"a"," ","c","r","i","s","i","s"," ","o","f"," ","3"," ","d","a","y","s"," ","a","n","d"," ","m","o","r","e">>),
    TextObject(<<>>, <<>>, <<"c","r","i","s","i","s"," ","i","n"," ","I","r","a","q">>, <<"1","2"," ","f","a","i","l","e","d">>) }

\* a line with a from/to pair, one with a long quoted text the redaction
\* changes, one with a long quoted text it leaves alone, one with a pair
\* whose texts are white space, an empty line
LinePool ==
  { <<"{","\"","f","r","o","m","\"",":"," ","\"","o","l","d"," ","t","e","x","t","\"",","," ","\"","t","o","\"",":"," ","\"","n","e","w"," ","t","e","x","t","\"","}">>,
    <<"\"","b","o","d","y","\"",":","\"","t","h","e"," ","c","r","i","s","i","s"," ","i","n"," ","I","r","a","q"," ","l","e","f","t"," ","1","2"," ","d","e","a","d"," ","a","n","d"," ","m","a","n","y"," ","m","o","r","e"," ","w","o","u","n","d","e","d"," ","t","h","e","r","e","\"">>,
    <<"\"","b","o","d","y","\"",":","\"","n","o","t","h","i","n","g"," ","a","t"," ","a","l","l"," ","t","o"," ","s","e","e"," ","i","n"," ","t","h","i","s"," ","r","a","t","h","e","r"," ","l","o","n","g"," ","l","i","n","e"," ","o","f"," ","t","e","x","t","\"">>,
    <<"\"","f","r","o","m","\"",":","\""," ","\"",",","\"","t","o","\"",":","\""," ","\"">>,
    <<>> }

\* the result of a call that returns nothing
Done(entries) == LoopStart(entries) @@ [value |-> <<>>]

NoRet == [value |-> <<>>, threw |-> FALSE, consumed |-> 0, lenAtLast |-> 0]

\* a call of method op with argument arg; r.entries is the processedEntries
\* it leaves, the other fields of r what it returned and how its loop ran
Called(op, arg, r) ==
  /\ nOps < MaxOps
  /\ nOps' = nOps + 1
  /\ lastOp' = op
  /\ lastArg' = arg
  /\ lastRet' = [f \in DOMAIN NoRet |-> r[f]]
  /\ prevEntries' = processedEntries
  /\ processedEntries' = r.entries
  /\ UNCHANGED <<variant, loadVars, serverVars, soundVars, blockVars>>

CallParse ==
  /\ variant = "json"
  /\ \E data \in DataPool :
       Called("parseGDGData", data, parseGDGData(processedEntries, data))

CallParseXml ==
  /\ variant = "xml"
  /\ \E items \in FeedPool :
       Called("parseGDGData", items, parseGDGData_xml(processedEntries, items))

\* parseGDGData of the RSS/XML variant where no DOMParser is defined
CallParseXmlThrows ==
  /\ variant = "xml"
  /\ \E items \in FeedPool :
       Called("parseGDGData", items, parseGDGData_xml_thrown(processedEntries))

CallAddEntry ==
  \E entry \in EntryPool :
    Called("addEntry", entry, Done(addEntry(processedEntries, entry)))

CallExtractTextContent ==
  /\ variant = "xml"
  /\ \E entry \in ObjectPool :
       Called("extractTextContent", entry,
              Done(extractTextContent_xml(processedEntries, entry)))

CallExtractChangesWithRegex ==
  /\ variant = "xml"
  /\ \E line \in LinePool :
       Called("extractChangesWithRegex", line,
              Done(extractChangesWithRegex(processedEntries, line)))

\* a value that is undefined
Undefined == [kind |-> "undefined"]

\* a promise that has not settled
Pending == [settled |-> "pending"]

\* no sketch runs
LoadIdle ==
  /\ sketch = "none"
  /\ pc = "idle"
  /\ response = Pending
  /\ body = Pending
  /\ gdgData = Undefined
  /\ dataLoaded = FALSE

\* no server route is deployed
ServerIdle ==
  /\ handler = "none"
  /\ at = "idle"
  /\ fetched = Pending
  /\ buffered = Pending
  /\ replies = <<>>

\* no play method has run
NoneSounded == [op |-> "none", synth |-> "none", tick |-> 0]

\* new SoundEffects()
SoundIdle ==
  /\ enabled = FALSE
  /\ initialized = FALSE
  /\ noise = "stopped"
  /\ calls = <<>>
  /\ sounded = NoneSounded

\* no block was made, no frame drawn
BlocksIdle ==
  /\ textBlocks = <<>>
  /\ paused = FALSE
  /\ frameCount = 0
  /\ nAdds = 0

\* new GDGParser()
ParserInit ==
  /\ variant \in {"json", "xml"}
  /\ processedEntries = <<>>
  /\ prevEntries = <<>>
  /\ lastOp = "none"
  /\ lastArg = <<>>
  /\ lastRet = NoRet
  /\ nOps = 0

Init == ParserInit /\ LoadIdle /\ ServerIdle /\ SoundIdle /\ BlocksIdle

Next ==
  \/ CallParse
  \/ CallParseXml
  \/ CallParseXmlThrows
  \/ CallAddEntry
  \/ CallExtractTextContent
  \/ CallExtractChangesWithRegex

Spec == Init /\ [][Next]_vars

----------------------------------------------------------------------------
(* A parser filled up to NearCap entries short of maxEntries, and then the *)
(* calls of Next.                                                          *)

FillEntry == [source |-> <<"s">>, changes |-> <<Change(<<"a">>, <<"b">>)>>]

NearCapacity == Len(processedEntries) >= maxEntries - NearCap

\* addEntry(FillEntry) on a parser that is not yet near capacity
Fill ==
  /\ ~NearCapacity
  /\ nOps = 0
  /\ processedEntries' = addEntry(processedEntries, FillEntry)
  /\ prevEntries' = processedEntries
  /\ lastOp' = "addEntry"
  /\ lastArg' = FillEntry
  /\ lastRet' = NoRet
  /\ UNCHANGED <<variant, nOps, loadVars, serverVars, soundVars, blockVars>>

NextCap ==
  \/ Fill
  \/ NearCapacity /\ CallParse
  \/ NearCapacity /\ CallParseXml
  \/ NearCapacity /\ CallParseXmlThrows
  \/ NearCapacity /\ CallAddEntry
  \/ NearCapacity /\ CallExtractTextContent
  \/ NearCapacity /\ CallExtractChangesWithRegex

SpecCap == Init /\ [][NextCap]_vars

----------------------------------------------------------------------------
(* A parser filled up to NearMin entries short of minEntries, and then the  *)
(* calls of Next.                                                           *)

NearMin == 2       \* entries short of minEntries when the calls start

NearMinimum == Len(processedEntries) >= minEntries - NearMin

\* addEntry(FillEntry) on a parser that is not yet near minEntries
FillMin == ~NearMinimum /\ Fill

NextMin ==
  \/ FillMin
  \/ NearMinimum /\ CallParse
  \/ NearMinimum /\ CallParseXml
  \/ NearMinimum /\ CallParseXmlThrows
  \/ NearMinimum /\ CallAddEntry
  \/ NearMinimum /\ CallExtractTextContent
  \/ NearMinimum /\ CallExtractChangesWithRegex

SpecMin == Init /\ [][NextMin]_vars

----------------------------------------------------------------------------
(* createRedactedVersion of either variant, applied to one text.  The       *)
(* method reads nothing of the parser and changes nothing in it.            *)

MaxWords == 2      \* words in a text given to createRedactedVersion

WordPool ==
  { <<"S","e","c","r","e","t",",">>, <<"s","e","c","r","e","t","s">>, <<"1","2">>, <<"x","1","2">>, <<"1",",","2","3","4",".","5">>, <<"1","5","%">>, <<"I","r","a","q","'","s">>, <<"F","A","I","L","E","D">> }

SepPool == { <<" ">>, <<" "," ","\n">> }

\* the texts createRedactedVersion is given: words with white space between
\* them, and texts that start or end with white space
TextPool ==
  {Join(ws, sep) : ws \in SeqsUpTo(WordPool, MaxWords), sep \in SepPool}
    \cup { <<" ">>, <<" ","r","i","o","t","-","p","o","l","i","c","e","\\","t">>, <<"3",".","5","%","x"," ","c","r","i","s","i","s">>, <<"v","2",".","5"," ","i","n"," ","C","h","i","n","a">> }

\* a new parser and the text its createRedactedVersion is about to be given
InitRedact ==
  /\ variant \in {"json", "xml"}
  /\ processedEntries = <<>>
  /\ prevEntries = <<>>
  /\ lastOp = "none"
  /\ lastArg \in TextPool
  /\ lastRet = NoRet
  /\ nOps = 0
  /\ LoadIdle
  /\ ServerIdle
  /\ SoundIdle /\ BlocksIdle

Redacted(value) ==
  /\ lastOp = "none"
  /\ lastOp' = "createRedactedVersion"
  /\ lastRet' = [NoRet EXCEPT !.value = value]
  /\ UNCHANGED <<variant, processedEntries, prevEntries, lastArg, nOps, loadVars, serverVars, soundVars, blockVars>>

CallCreateRedactedVersion ==
  /\ variant = "json"
  /\ Redacted(createRedactedVersion(lastArg))

CallCreateRedactedVersionXml ==
  /\ variant = "xml"
  /\ Redacted(createRedactedVersion_xml(lastArg))

NextRedact ==
  \/ CallCreateRedactedVersion
  \/ CallCreateRedactedVersionXml

SpecRedact == InitRedact /\ [][NextRedact]_vars

----------------------------------------------------------------------------
(* extractSource of the JSON-articles variant, applied to one article.  The *)
(* method reads nothing of the parser and changes nothing in it.            *)

UrlPool ==
  { <<>>, <<"h","t","t","p",":","/","/","w","w","w",".","a",".","g","o","v","/","x">>, <<"h","t","t","p","s",":","/","/","b",".","o","r","g">>, <<"H","T","T","P",":","/","/","W","W","W",".","C",".","N","e","t",":","8","0","/","p">>,
    <<"h","t","t","p","s",":","/","/","w","w","w","2",".","g",".","c","o","m","?","q","=","1">>, <<"h","t","t","p",":","/","/">>, <<"n","o","t"," ","a"," ","u","r","l">>, <<"w","w","w",".","d",".","c","o","m">>,
    <<"/","r","e","l","a","t","i","v","e","/","p","a","t","h">>, <<"m","a","i","l","t","o",":","x">>, <<"t","e","l",":","+","1","5","5","5","0","1","0","0">>, <<"d","a","t","a",":","t","e","x","t","/","p","l","a","i","n",",","h","i">>,
    <<"j","a","v","a","s","c","r","i","p","t",":","v","o","i","d","(","0",")">>, <<"f","i","l","e",":","/","/","/","t","m","p","/","a">> }

\* the articles extractSource is given
SourcePool ==
  {Article(source, url, domain, <<>>, <<>>, <<>>) :
     source \in {<<>>, <<"B","B","C">>}, url \in UrlPool, domain \in {<<>>, <<"b",".","o","r","g">>}}

\* a new parser and the article its extractSource is about to be given
InitSource ==
  /\ variant = "json"
  /\ processedEntries = <<>>
  /\ prevEntries = <<>>
  /\ lastOp = "none"
  /\ lastArg \in SourcePool
  /\ lastRet = NoRet
  /\ nOps = 0
  /\ LoadIdle
  /\ ServerIdle
  /\ SoundIdle /\ BlocksIdle

CallExtractSource ==
  /\ variant = "json"
  /\ lastOp = "none"
  /\ lastOp' = "extractSource"
  /\ lastRet' = [NoRet EXCEPT !.value = extractSource(lastArg)]
  /\ UNCHANGED <<variant, processedEntries, prevEntries, lastArg, nOps, loadVars, serverVars, soundVars, blockVars>>

NextSource == CallExtractSource

SpecSource == InitSource /\ [][NextSource]_vars

----------------------------------------------------------------------------
(* The feed loading of the two sketches (src/unnamed/part_000): preload     *)
(* starts fetch(url).then(...).then(...).catch(...), and each callback runs *)
(* to its end as one step.  The sketch "rss" loads the RSS feed, the sketch *)
(* "json" the JSON endpoint.  Either GDGParser class may be the one loaded. *)

\* an object whose entries field is an array, as gdgData holds it
JsonObject(entries) ==
  [kind |-> "object", hasEntries |-> TRUE, notArray |-> FALSE, entries |-> entries]

\* gdgParser.getSampleData()
SampleData == JsonObject(IF variant = "json" THEN getSampleData.entries
                                             ELSE getSampleData_xml.entries)

\* gdgParser.createRedactedVersion(text)
Redact(text) ==
  IF variant = "json" THEN createRedactedVersion(text) ELSE createRedactedVersion_xml(text)

\* a fallback that leaves dataLoaded alone
fallbackToSampleData_notLoaded == [gdgData |-> SampleData, dataLoaded |-> FALSE, threw |-> FALSE]

\* what the globals hold after fallbackToSampleData()
fallbackToSampleData == [gdgData |-> SampleData, dataLoaded |-> TRUE, threw |-> FALSE]

\* the extractDomainFromUrl of the sketch returns the url when it is no URL
extractDomainFromUrl_sketch(url) ==
  Let(ParseUrl(url), LAMBDA u : IF u.ok THEN StripWww(u.hostname) ELSE url)

textFragments(domain) ==
  << <<"R","e","p","o","r","t","s"," ","f","r","o","m"," ">> \o domain \o <<" ","i","n","d","i","c","a","t","e"," ","s","i","g","n","i","f","i","c","a","n","t"," ","c","o","n","c","e","r","n","s"," ","a","b","o","u","t"," ","g","o","v","e","r","n","m","e","n","t"," ","t","r","a","n","s","p","a","r","e","n","c","y",".">>,
     domain \o <<" ","p","u","b","l","i","s","h","e","d"," ","d","o","c","u","m","e","n","t","s"," ","r","e","v","e","a","l","i","n","g"," ","d","e","t","a","i","l","e","d"," ","s","t","a","t","i","s","t","i","c","s"," ","o","n"," ","c","i","v","i","l","i","a","n"," ","c","a","s","u","a","l","t","i","e","s",".">>,
     <<"I","n","t","e","r","n","a","l"," ","m","e","m","o"," ","o","b","t","a","i","n","e","d"," ","b","y"," ">> \o domain \o <<" ","s","h","o","w","s"," ","c","r","i","t","i","c","a","l"," ","f","a","i","l","u","r","e","s"," ","i","n"," ","t","h","e"," ","o","v","e","r","s","i","g","h","t"," ","p","r","o","c","e","s","s",".">>,
     <<"C","l","a","s","s","i","f","i","e","d"," ","i","n","f","o","r","m","a","t","i","o","n"," ","r","e","l","e","a","s","e","d"," ","b","y"," ">> \o domain \o <<" ","e","x","p","o","s","e","s"," ","s","p","e","c","i","f","i","c"," ","d","e","t","a","i","l","s"," ","a","b","o","u","t"," ","m","i","l","i","t","a","r","y"," ","o","p","e","r","a","t","i","o","n","s",".">>,
     domain \o <<" ","i","n","v","e","s","t","i","g","a","t","i","o","n"," ","u","n","c","o","v","e","r","e","d"," ","e","v","i","d","e","n","c","e"," ","o","f"," ","s","y","s","t","e","m","a","t","i","c"," ","v","i","o","l","a","t","i","o","n","s"," ","i","n"," ","m","u","l","t","i","p","l","e"," ","d","e","p","a","r","t","m","e","n","t","s",".">>,
     <<"L","e","a","k","e","d"," ","d","o","c","u","m","e","n","t","s"," ","o","n"," ">> \o domain \o <<" ","r","e","v","e","a","l"," ","e","x","a","c","t"," ","f","i","g","u","r","e","s"," ","r","e","l","a","t","e","d"," ","t","o"," ","t","h","e"," ","e","n","v","i","r","o","n","m","e","n","t","a","l"," ","i","m","p","a","c","t",".">>,
     domain \o <<" ","r","e","p","o","r","t","s"," ","t","h","a","t"," ","o","f","f","i","c","i","a","l","s"," ","a","c","k","n","o","w","l","e","d","g","e","d"," ","s","e","r","i","o","u","s"," ","m","i","s","t","a","k","e","s"," ","i","n"," ","h","a","n","d","l","i","n","g"," ","t","h","e"," ","c","r","i","s","i","s",".">>,
     <<"W","h","i","s","t","l","e","b","l","o","w","e","r"," ","t","e","s","t","i","m","o","n","y"," ","p","u","b","l","i","s","h","e","d"," ","o","n"," ">> \o domain \o <<" ","d","e","t","a","i","l","s"," ","e","x","p","l","i","c","i","t"," ","t","i","m","e","l","i","n","e"," ","o","f"," ","e","v","e","n","t","s",".">>,
     domain \o <<" ","o","b","t","a","i","n","e","d"," ","d","o","c","u","m","e","n","t","s"," ","s","h","o","w","i","n","g"," ","p","r","e","c","i","s","e"," ","n","u","m","b","e","r","s"," ","o","f"," ","a","f","f","e","c","t","e","d"," ","i","n","d","i","v","i","d","u","a","l","s",".">>,
     <<"I","n","v","e","s","t","i","g","a","t","i","o","n"," ","b","y"," ">> \o domain \o <<" ","r","e","v","e","a","l","s"," ","c","o","n","c","r","e","t","e"," ","e","v","i","d","e","n","c","e"," ","o","f"," ","p","o","l","i","c","y"," ","f","a","i","l","u","r","e","s",".">> >>

NumFragments == 10

\* random is the index Math.random() picks
generateOriginalText_sketch(url, random) ==
  textFragments(extractDomainFromUrl_sketch(url))[random]

UsesDescription(item) == item.description # <<>> /\ Len(item.description) > 20

UsesTitle(item) == ~UsesDescription(item) /\ item.title # <<>> /\ Len(item.title) > 10

\* does the loop body make a synthetic text for the item
UsesFragment(item) == ~UsesDescription(item) /\ ~UsesTitle(item)

\* the originalText of the loop body
ItemText(item, random) ==
  IF UsesDescription(item) THEN item.description
  ELSE IF UsesTitle(item) THEN item.title
  ELSE generateOriginalText_sketch(item.link, random)

\* the entry the loop body of processRSSFeed pushes for one item
RssEntry(item, random) ==
  Let(ItemText(item, random), LAMBDA originalText :
    [source |-> Let(extractDomainFromUrl_sketch(item.link), LAMBDA domain :
                  IF domain # <<>> THEN domain ELSE <<"G","D","E","L","T"," ","P","r","o","j","e","c","t">>),
     changes |-> <<[from |-> originalText, to |-> Redact(originalText)]>>])

\* a processRSSFeed that takes a feed with no items as it is
processRSSFeed_anyFeed(items, randoms) ==
  [gdgData |-> JsonObject([i \in 1..Len(items) |->
                             RssEntry(items[i], IF UsesFragment(items[i]) THEN randoms[i] ELSE 1)]),
   dataLoaded |-> TRUE, threw |-> FALSE]

\* what the globals hold after processRSSFeed(rssData); items are the item
\* elements of rssData, randoms[i] the index Math.random() picks for item i
processRSSFeed(items, randoms) ==
  IF Len(items) = 0 THEN fallbackToSampleData
  ELSE Let([i \in 1..Len(items) |->
              RssEntry(items[i], IF UsesFragment(items[i]) THEN randoms[i] ELSE 1)],
           LAMBDA entries :
             IF Len(entries) = 0 THEN fallbackToSampleData
             ELSE [gdgData |-> JsonObject(entries), dataLoaded |-> TRUE, threw |-> FALSE])

\* does a reduce callback of processData throw on the entries: it does when
\* entries is no array, or when an entry is null or has no changes array
ReduceThrows(data) ==
  data.notArray \/ \E k \in 1..Len(data.entries) : data.entries[k].bad

\* a test that takes an empty array of entries
NoEntries_missingOnly(data) == data.kind # "object" \/ ~data.hasEntries

\* !gdgData || !gdgData.entries || gdgData.entries.length === 0
NoEntries(data) ==
  \/ data.kind # "object"
  \/ ~data.hasEntries
  \/ ~data.notArray /\ Len(data.entries) = 0

\* what the globals hold after gdgData = data; dataLoaded = true;
\* processData(), and whether processData threw
processData(data) ==
  IF NoEntries(data) THEN fallbackToSampleData
  ELSE [gdgData |-> data, dataLoaded |-> TRUE, threw |-> ReduceThrows(data)]

\* a 21-character description of white space only
Blank(n) == [k \in 1..n |-> " "]

\* the item lists of the documents the RSS feed is parsed to; a text that is
\* no XML parses to a document with no item
RssPool ==
  { <<>>,
    <<Item(<<"T","i","t","l","e">>, <<"1","2"," ","c","a","s","u","a","l","t","i","e","s"," ","i","n"," ","I","r","a","q"," ","r","e","p","o","r","t","e","d">>, <<"h","t","t","p",":","/","/","w","w","w",".","a",".","g","o","v","/","1">>)>>,
    <<Item(<<"r","i","o","t"," ","i","n"," ","c","i","t","y"," ","5">>, <<"s","h","o","r","t">>, <<"h","t","t","p","s",":","/","/","b",".","o","r","g","/","3">>)>>,
    <<Item(<<>>, <<>>, <<"h","t","t","p",":","/","/","w","w","w",".","a",".","g","o","v","/","4">>)>>,
    <<Item(<<>>, Blank(21), <<>>)>>,
    <<Item(<<"T","i","t","l","e">>, <<"n","o","t","h","i","n","g"," ","t","o"," ","s","e","e"," ","i","n"," ","t","h","i","s"," ","t","e","x","t">>, <<"n","o","t"," ","a"," ","u","r","l">>),
      Item(<<"s","e","c","r","e","t"," ","p","r","o","b","e"," ","1","2">>, <<>>, <<>>)>> }

\* an entry of the JSON document; bad tells that it is null or has no
\* changes array
JsonEntry(bad, changes) == [source |-> <<"s","r","c">>, changes |-> changes, bad |-> bad]

JsonData(entries) == JsonObject(entries)

\* the values the JSON endpoint's document parses to: a falsy value, an
\* object with no entries field (the GDELT document has articles), entries
\* that are no array, and arrays of entries
JsonPool ==
  { [kind |-> "falsy", hasEntries |-> FALSE, notArray |-> FALSE, entries |-> <<>>],
    [kind |-> "object", hasEntries |-> FALSE, notArray |-> FALSE, entries |-> <<>>],
    [kind |-> "object", hasEntries |-> TRUE, notArray |-> TRUE, entries |-> <<>>],
    JsonData(<<>>),
    JsonData(<<JsonEntry(FALSE, <<Change(<<"o","l","d"," ","t","e","x","t">>, <<"n","e","w"," ","t","e","x","t">>)>>)>>),
    JsonData(<<JsonEntry(FALSE, <<Change(<<>>, <<>>)>>)>>),
    JsonData(<<JsonEntry(FALSE, <<>>)>>),
    JsonData(<<JsonEntry(TRUE, <<>>)>>),
    JsonData(<<JsonEntry(FALSE, <<Change(<<"o","l","d">>, <<"n","e","w">>)>>), JsonEntry(TRUE, <<>>)>>) }

\* preload() has called fetch
LoadInit ==
  /\ sketch \in {"rss", "json"}
  /\ pc = "fetching"
  /\ response = Pending
  /\ body = Pending
  /\ gdgData = Undefined
  /\ dataLoaded = FALSE

InitLoad == ParserInit /\ LoadInit /\ ServerIdle /\ SoundIdle /\ BlocksIdle

\* the fetch promise resolves with a response
FetchResolves ==
  /\ pc = "fetching"
  /\ \E ok \in BOOLEAN : response' = [settled |-> "resolved", ok |-> ok]
  /\ pc' = "then1"
  /\ UNCHANGED <<parserVars, serverVars, soundVars, sketch, body, gdgData, dataLoaded, blockVars>>

\* the fetch promise rejects
FetchRejects ==
  /\ pc = "fetching"
  /\ response' = [settled |-> "rejected", ok |-> FALSE]
  /\ pc' = "catch"
  /\ UNCHANGED <<parserVars, serverVars, soundVars, sketch, body, gdgData, dataLoaded, blockVars>>

\* the first then callback: throws when the response is not ok, and else
\* returns the promise of response.text() or response.json()
ThenResponse ==
  /\ pc = "then1"
  /\ pc' = IF response.ok THEN "reading" ELSE "catch"
  /\ UNCHANGED <<parserVars, serverVars, soundVars, sketch, response, body, gdgData, dataLoaded, blockVars>>

\* response.text() or response.json() resolves with the document
BodyResolves ==
  /\ pc = "reading"
  /\ \E value \in IF sketch = "rss" THEN RssPool ELSE JsonPool :
       body' = [settled |-> "resolved", value |-> value]
  /\ pc' = "then2"
  /\ UNCHANGED <<parserVars, serverVars, soundVars, sketch, response, gdgData, dataLoaded, blockVars>>

\* response.text() or response.json() rejects: the connection breaks, or
\* the document is no JSON
BodyRejects ==
  /\ pc = "reading"
  /\ body' = [settled |-> "rejected", value |-> <<>>]
  /\ pc' = "catch"
  /\ UNCHANGED <<parserVars, serverVars, soundVars, sketch, response, gdgData, dataLoaded, blockVars>>

\* the globals take what a callback left in them
Assign(r) == gdgData' = r.gdgData /\ dataLoaded' = r.dataLoaded

\* the second then callback of the sketch "rss": processRSSFeed(xmlDoc),
\* which catches what it throws
ThenXmlText ==
  /\ pc = "then2" /\ sketch = "rss"
  /\ \E randoms \in [1..Len(body.value) -> 1..NumFragments] :
       /\ \A i \in 1..Len(body.value) : UsesFragment(body.value[i]) \/ randoms[i] = 1
       /\ Assign(processRSSFeed(body.value, randoms))
  /\ pc' = "done"
  /\ UNCHANGED <<parserVars, serverVars, soundVars, sketch, response, body, blockVars>>

\* the state after the second then callback of the sketch "json"
AfterThenData(r) == Assign(r) /\ pc' = IF r.threw THEN "catch" ELSE "done"

\* the second then callback of the sketch "json": gdgData = data;
\* dataLoaded = true; processData()
ThenData ==
  /\ pc = "then2" /\ sketch = "json"
  /\ AfterThenData(processData(body.value))
  /\ UNCHANGED <<parserVars, serverVars, soundVars, sketch, response, body, blockVars>>

\* the catch callback: fallbackToSampleData()
Catch ==
  /\ pc = "catch"
  /\ Assign(fallbackToSampleData)
  /\ pc' = "done"
  /\ UNCHANGED <<parserVars, serverVars, soundVars, sketch, response, body, blockVars>>

NextLoad ==
  \/ FetchResolves
  \/ FetchRejects
  \/ ThenResponse
  \/ BodyResolves
  \/ BodyRejects
  \/ ThenXmlText
  \/ ThenData
  \/ Catch

SpecLoad == InitLoad /\ [][NextLoad]_vars

Places == {"fetching", "then1", "reading", "then2", "catch", "done"}

\* the step that is due at a place of the promise chain is taken
Leaves(place) == pc = place /\ pc' \in Places \ {place}

\* The callbacks of a settled promise run: the job queue is served.  The
\* promise of response.text() or response.json() settles once the response
\* has arrived.  Nothing makes the fetch itself settle.
FairLoad ==
  /\ SpecLoad
  /\ WF_pc(Leaves("then1"))
  /\ WF_pc(Leaves("reading"))
  /\ WF_pc(Leaves("then2"))
  /\ WF_pc(Leaves("catch"))

----------------------------------------------------------------------------
(* JSON.parse and JSON.stringify, on the documents the model feeds them:    *)
(* the literals, unsigned integers, strings with the escapes \", \\ and \n, *)
(* arrays, and objects whose keys are no integers.                          *)

JAtom(text) == [t |-> "atom", v |-> text]
JStr(text) == [t |-> "str", v |-> text]
JArr(elements) == [t |-> "arr", v |-> elements]
JObj(members) == [t |-> "obj", v |-> members]

Member(key, val) == [key |-> key, val |-> val]

NoParse == [ok |-> FALSE, value |-> <<>>, next |-> 0]

Parsed(value, next) == [ok |-> TRUE, value |-> value, next |-> next]

Literals == {<<"n","u","l","l">>, <<"t","r","u","e">>, <<"f","a","l","s","e">>}

\* the character an escape stands for
Unescaped == "\"" :> "\"" @@ "\\" :> "\\" @@ "n" :> "\n"

\* the number of backslashes that stand in a row just before position j,
\* from position lo on
BackslashesBefore(s, lo, j) ==
  j - (CHOOSE p \in lo..j :
         /\ \A k \in p..(j - 1) : s[k] = "\\"
         /\ p = lo \/ s[p - 1] # "\\")

\* the character at k is the second character of an escape
IsEscaped(s, lo, k) == BackslashesBefore(s, lo, k) % 2 = 1

\* the positions from lo on of a double quote that ends the string
ClosingQuotes(s, lo) ==
  {j \in lo..Len(s) : s[j] = "\"" /\ ~IsEscaped(s, lo, j)}

\* the n-th position of the set K of positions
Nth(K, n) == CHOOSE k \in K : Cardinality({m \in K : m < k}) = n - 1

\* the characters of s from lo to hi with their escapes resolved
Unescape(s, lo, hi) ==
  Let({k \in lo..hi : IsEscaped(s, lo, k) \/ s[k] # "\\"}, LAMBDA K :
    Table([n \in 1..Cardinality(K) |->
             Let(Nth(K, n), LAMBDA k :
               IF IsEscaped(s, lo, k) THEN Unescaped[s[k]] ELSE s[k])]))

\* the string whose characters start at position lo, after its opening quote
ParseString(s, lo) ==
  Let(ClosingQuotes(s, lo), LAMBDA Q :
    IF Q = {} THEN NoParse
    ELSE Let(CHOOSE j \in Q : \A q \in Q : j <= q, LAMBDA j :
           IF \E k \in lo..(j - 1) :
                \/ s[k] \in {"\n", "\t"}
                \/ IsEscaped(s, lo, k) /\ s[k] \notin DOMAIN Unescaped
           THEN NoParse
           ELSE Parsed(JStr(Unescape(s, lo, j - 1)), j + 1)))

\* an object's members with key set to val: a key that comes again keeps
\* its place and takes the later value
PutMember(members, key, val) ==
  IF \E k \in 1..Len(members) : members[k].key = key
  THEN [k \in 1..Len(members) |->
          IF members[k].key = key THEN Member(key, val) ELSE members[k]]
  ELSE Append(members, Member(key, val))

RECURSIVE ParseValue(_, _)
RECURSIVE ParseElements(_, _, _)
RECURSIVE ParseMembers(_, _, _)

\* the value that starts at or after position i0
ParseValue(s, i0) ==
  Let(SkipSpaces(s, i0), LAMBDA i :
    IF i > Len(s) THEN NoParse
    ELSE IF s[i] = "\"" THEN ParseString(s, i + 1)
    ELSE IF s[i] \in Digits
    THEN Let(IF s[i] = "0" THEN i + 1 ELSE DigitRunEnd(s, i), LAMBDA e :
           Parsed(JAtom(SubSeq(s, i, e - 1)), e))
    ELSE IF \E l \in Literals : HasAt(s, i, l)
    THEN Let(CHOOSE l \in Literals : HasAt(s, i, l), LAMBDA l :
           Parsed(JAtom(l), i + Len(l)))
    ELSE IF s[i] = "["
    THEN Let(SkipSpaces(s, i + 1), LAMBDA j :
           IF j <= Len(s) /\ s[j] = "]" THEN Parsed(JArr(<<>>), j + 1)
           ELSE ParseElements(s, j, <<>>))
    ELSE IF s[i] = "{"
    THEN Let(SkipSpaces(s, i + 1), LAMBDA j :
           IF j <= Len(s) /\ s[j] = "}" THEN Parsed(JObj(<<>>), j + 1)
           ELSE ParseMembers(s, j, <<>>))
    ELSE NoParse)

\* the elements of an array from position i on, after the elements acc
ParseElements(s, i, acc) ==
  Let(ParseValue(s, i), LAMBDA r :
    IF ~r.ok THEN NoParse
    ELSE Let(SkipSpaces(s, r.next), LAMBDA j :
           IF j > Len(s) THEN NoParse
           ELSE IF s[j] = "," THEN ParseElements(s, j + 1, Append(acc, r.value))
           ELSE IF s[j] = "]" THEN Parsed(JArr(Append(acc, r.value)), j + 1)
           ELSE NoParse))

\* the member whose key is r, its colon due at or after r.next, and the
\* members after it
ParseMemberValue(s, r, acc) ==
  Let(SkipSpaces(s, r.next), LAMBDA c :
    IF c > Len(s) \/ s[c] # ":" THEN NoParse
    ELSE Let(ParseValue(s, c + 1), LAMBDA v :
           IF ~v.ok THEN NoParse
           ELSE Let(SkipSpaces(s, v.next), LAMBDA d :
                  IF d > Len(s) THEN NoParse
                  ELSE IF s[d] = ","
                  THEN ParseMembers(s, d + 1, PutMember(acc, r.value.v, v.value))
                  ELSE IF s[d] = "}"
                  THEN Parsed(JObj(PutMember(acc, r.value.v, v.value)), d + 1)
                  ELSE NoParse)))

\* the members of an object from position i on, after the members acc
ParseMembers(s, i, acc) ==
  Let(SkipSpaces(s, i), LAMBDA j :
    IF j > Len(s) \/ s[j] # "\"" THEN NoParse
    ELSE Let(ParseString(s, j + 1), LAMBDA r :
           IF ~r.ok THEN NoParse ELSE ParseMemberValue(s, r, acc)))

\* the message of the SyntaxError of JSON.parse
SyntaxErrorMessage == <<"U","n","e","x","p","e","c","t","e","d"," ","t","o","k","e","n">>

\* what a try block came to: the value it made, or the message of the error
\* it threw
Made(data) == [threw |-> FALSE, message |-> <<>>, data |-> data]

Threw(message) == [threw |-> TRUE, message |-> message, data |-> <<>>]

\* JSON.parse(text)
JSONparse(text) ==
  Let(ParseValue(text, 1), LAMBDA r :
    IF r.ok /\ SkipSpaces(text, r.next) > Len(text) THEN Made(r.value)
    ELSE Threw(SyntaxErrorMessage))

\* the escape of a character in a string
Escaped(c) ==
  IF c \in {"\"", "\\"} THEN <<"\\", c>>
  ELSE IF c = "\n" THEN <<"\\", "n">>
  ELSE <<c>>

\* the position before the escape of text[k] in the escaped text
EscapedBefore(text, k) ==
  k - 1 + Cardinality({m \in 1..(k - 1) : Len(Escaped(text[m])) = 2})

\* the text between double quotes, each character as its escape
Quoted(text) ==
  Let(EscapedBefore(text, Len(text) + 1), LAMBDA total :
    <<"\"">> \o Table([n \in 1..total |->
                     Let(CHOOSE k \in 1..Len(text) :
                           n - EscapedBefore(text, k) \in 1..Len(Escaped(text[k])),
                         LAMBDA k : Escaped(text[k])[n - EscapedBefore(text, k)])])
          \o <<"\"">>)

RECURSIVE JSONstringify(_)
\* JSON.stringify(v)
JSONstringify(v) ==
  IF v.t = "atom" THEN v.v
  ELSE IF v.t = "str" THEN Quoted(v.v)
  ELSE IF v.t = "arr"
  THEN <<"[">> \o Join([k \in 1..Len(v.v) |-> JSONstringify(v.v[k])], <<",">>) \o <<"]">>
  ELSE <<"{">> \o Join([k \in 1..Len(v.v) |->
                       Quoted(v.v[k].key) \o <<":">> \o JSONstringify(v.v[k].val)], <<",">>)
            \o <<"}">>

----------------------------------------------------------------------------
(* The two server routes: the Netlify function (src/unnamed/part_002) and   *)
(* the route /api/gdelt of the Express server (src/unnamed/part_000).  A    *)
(* handler runs from one await to the next as one step.                     *)

MaxRequests == 2   \* requests one server is sent

DecimalDigits == <<"0", "1", "2", "3", "4", "5", "6", "7", "8", "9">>

RECURSIVE Decimal(_)
\* String(n)
Decimal(n) ==
  IF n < 10 THEN <<DecimalDigits[n + 1]>>
  ELSE Append(Decimal(n \div 10), DecimalDigits[(n % 10) + 1])

\* a promise that resolved with value, one that rejected with an error
Resolved(value) == [settled |-> "resolved", value |-> value, message |-> <<>>]

Rejected(message) == [settled |-> "rejected", value |-> <<>>, message |-> message]

HttpResponse(status, statusText) == [status |-> status, statusText |-> statusText]

\* response.ok
Ok(res) == res.status >= 200 /\ res.status <= 299

\* the responses of the upstream server
ResponsePool ==
  { HttpResponse(200, <<"O","K">>), HttpResponse(404, <<"N","o","t"," ","F","o","u","n","d">>),
    HttpResponse(503, <<"S","e","r","v","i","c","e"," ","U","n","a","v","a","i","l","a","b","l","e">>) }

\* the errors a fetch, a read of the body or a read of the file ends with
ErrorPool == { <<"n","e","t","w","o","r","k"," ","t","i","m","e","o","u","t">>, <<"E","N","O","E","N","T",":"," ","n","o"," ","s","u","c","h"," ","f","i","l","e">> }

\* the documents the upstream server or the local file holds
DocumentPool ==
  { <<"{","\"","e","n","t","r","i","e","s","\"",":"," ","["," ","{","\"","i","d","\"",":"," ","7",","," ","\"","f","r","o","m","\"",":"," ","\"","a"," ">> \o <<"\\", "\"">> \o <<"b","\"","}"," ","]","}">>,
    <<"[","1",","," ","t","r","u","e",",","\n"," ","n","u","l","l","]">>,
    <<"{","\"","a","\"",":"," ","1",","," ","\"","b","\"",":"," ","[","]",","," ","\"","a","\"",":"," ","{","}","}">>,
    <<"{","\"","e","n","t","r","i","e","s","\"",":"," ","[">>,
    <<"{","'","a","'",":"," ","1","}">>,
    <<>> }

\* the bytes of a body: a gzip stream of a text, a gzip stream that is cut
\* short, or no gzip stream
Gzip(text) == [format |-> "gzip", text |-> text]

BufferPool ==
  {Gzip(d) : d \in DocumentPool}
    \cup {[format |-> f, text |-> <<>>] : f \in {"truncated", "other"}}

\* decompressed = pako.inflate(compressed, { to: 'string' }): the text, or
\* an error; of a stream that is cut short some versions of the library
\* throw and some return undefined
Inflated(buffer) ==
  IF buffer.format = "gzip" THEN {[threw |-> FALSE, undefined |-> FALSE, text |-> buffer.text]}
  ELSE {[threw |-> TRUE, undefined |-> FALSE, text |-> <<>>]}
         \cup {[threw |-> FALSE, undefined |-> TRUE, text |-> <<>>] : f \in {buffer.format} \cap {"truncated"}}

\* the answers of the Netlify handler
NetlifyOk(data) ==
  [statusCode |-> 200, contentType |-> "application/json", body |-> JSONstringify(data)]

NetlifyError(message) ==
  [statusCode |-> 500, contentType |-> "application/json",
   body |-> JSONstringify(JObj(<<Member(<<"e","r","r","o","r">>, JStr(message))>>))]

\* the handler's promise rejects
Unhandled == [statusCode |-> 0, contentType |-> "none", body |-> <<>>]

\* the handler without its outer catch
handler_uncaught(r) ==
  IF r.threw THEN Unhandled ELSE NetlifyOk(r.data)

\* exports.handler: the outer try block came to r
handler_netlify(r) ==
  IF r.threw THEN NetlifyError(r.message) ELSE NetlifyOk(r.data)

\* the answers of the Express route: res.json(parsedData) and
\* res.status(500).json({ error: ..., details: error.message })
ExpressOk(data) ==
  [statusCode |-> 200, contentType |-> "application/json", body |-> JSONstringify(data)]

ExpressError(message) ==
  [statusCode |-> 500, contentType |-> "application/json",
   body |-> JSONstringify(JObj(<<Member(<<"e","r","r","o","r">>, JStr(<<"F","a","i","l","e","d"," ","t","o"," ","l","o","a","d"," ","d","a","t","a">>)),
                                 Member(<<"d","e","t","a","i","l","s">>, JStr(message))>>))]

\* the handler of app.get('/api/gdelt'): the try block came to r
handler_express(r) ==
  IF r.threw THEN ExpressError(r.message) ELSE ExpressOk(r.data)

\* the handler ends with the answer
Answer(reply) ==
  /\ replies' = Append(replies, reply)
  /\ at' = IF reply = Unhandled THEN "unhandled" ELSE "answered"

\* a server with one of the routes
ServerInit ==
  /\ handler \in {"netlify", "express"}
  /\ at = "idle"
  /\ fetched = Pending
  /\ buffered = Pending
  /\ replies = <<>>

InitServer == ParserInit /\ LoadIdle /\ ServerInit /\ SoundIdle /\ BlocksIdle

\* a request arrives and the handler runs up to its first await
Request ==
  /\ at \in {"idle", "answered"}
  /\ Len(replies) < MaxRequests
  /\ at' = IF handler = "netlify" THEN "fetching" ELSE "reading"
  /\ fetched' = Pending
  /\ buffered' = Pending
  /\ UNCHANGED <<parserVars, loadVars, soundVars, handler, replies, blockVars>>

\* await fetch(url) resolves: the handler goes on to the await of
\* response.arrayBuffer(), or throws on a response that is not OK
NetlifyFetchResolves ==
  /\ at = "fetching"
  /\ \E res \in ResponsePool :
       /\ fetched' = Resolved(res)
       /\ IF Ok(res)
          THEN at' = "buffering" /\ UNCHANGED replies
          ELSE Answer(handler_netlify(Threw(
                 <<"F","a","i","l","e","d"," ","t","o"," ","f","e","t","c","h"," ","G","D","E","L","T"," ","d","a","t","a",":"," ">> \o Decimal(res.status)
                   \o <<" ">> \o res.statusText)))
  /\ UNCHANGED <<parserVars, loadVars, soundVars, handler, buffered, blockVars>>

\* await fetch(url) rejects
NetlifyFetchRejects ==
  /\ at = "fetching"
  /\ \E message \in ErrorPool :
       /\ fetched' = Rejected(message)
       /\ Answer(handler_netlify(Threw(message)))
  /\ UNCHANGED <<parserVars, loadVars, soundVars, handler, buffered, blockVars>>

\* the handler from JSON.parse(decompressed) to the end of its outer try
\* block
NetlifyParse(inflated) ==
  Let(IF inflated.undefined THEN Threw(SyntaxErrorMessage) ELSE JSONparse(inflated.text),
      LAMBDA parsed :
        IF parsed.threw THEN Threw(<<"F","a","i","l","e","d"," ","t","o"," ","p","a","r","s","e"," ","G","D","E","L","T"," ","d","a","t","a">>) ELSE parsed)

\* the handler from pako.inflate to the end of its outer try block
NetlifyInflate(inflated) ==
  IF inflated.threw THEN Threw(<<"F","a","i","l","e","d"," ","t","o"," ","d","e","c","o","m","p","r","e","s","s"," ","G","D","E","L","T"," ","d","a","t","a">>)
  ELSE NetlifyParse(inflated)

\* await response.arrayBuffer() resolves: the handler runs to its end
NetlifyBufferResolves ==
  /\ at = "buffering"
  /\ \E buffer \in BufferPool :
       /\ buffered' = Resolved(buffer)
       /\ \E inflated \in Inflated(buffer) :
            Answer(handler_netlify(NetlifyInflate(inflated)))
  /\ UNCHANGED <<parserVars, loadVars, soundVars, handler, fetched, blockVars>>

\* await response.arrayBuffer() rejects
NetlifyBufferRejects ==
  /\ at = "buffering"
  /\ \E message \in ErrorPool :
       /\ buffered' = Rejected(message)
       /\ Answer(handler_netlify(Threw(message)))
  /\ UNCHANGED <<parserVars, loadVars, soundVars, handler, fetched, blockVars>>

\* await fs.readFile(...) resolves: the route runs to its end
ExpressReadResolves ==
  /\ at = "reading"
  /\ \E data \in DocumentPool :
       /\ fetched' = Resolved(data)
       /\ Answer(handler_express(JSONparse(data)))
  /\ UNCHANGED <<parserVars, loadVars, soundVars, handler, buffered, blockVars>>

\* await fs.readFile(...) rejects
ExpressReadRejects ==
  /\ at = "reading"
  /\ \E message \in ErrorPool :
       /\ fetched' = Rejected(message)
       /\ Answer(handler_express(Threw(message)))
  /\ UNCHANGED <<parserVars, loadVars, soundVars, handler, buffered, blockVars>>

NextServer ==
  \/ Request
  \/ NetlifyFetchResolves
  \/ NetlifyFetchRejects
  \/ NetlifyBufferResolves
  \/ NetlifyBufferRejects
  \/ ExpressReadResolves
  \/ ExpressReadRejects

SpecServer == InitServer /\ [][NextServer]_vars

----------------------------------------------------------------------------
(* SoundEffects (src/sound_effects.js) and the clicks on the sound button   *)
(* of the sketch.  A call of toggleSounds runs up to its await of           *)
(* Tone.start() as one step and from there to its end as another: the       *)
(* promise of initialize() is resolved when it is awaited, so nothing       *)
(* comes between that await and what follows it.                            *)

MaxCalls == 3      \* calls of toggleSounds

\* the guard of a play method with one of its two tests left out
PlayGuard_enabledOnly == enabled

\* if (!this.enabled || !this.initialized) return;
PlayGuard == enabled /\ initialized

\* the play methods and the synth each of them triggers
PlaySynth ==
  [playTextAppear |-> "textAppearSynth", playTextDelete |-> "textDeleteSynth",
   playUIClick |-> "uiClickSynth", playGlitch |-> "textDeleteSynth",
   playRedaction |-> "textAppearSynth"]

\* the method or callback op has run and triggered synth ("none": nothing)
Sounded(op, synth) ==
  sounded' = [op |-> op, synth |-> synth, tick |-> 1 - sounded.tick]

\* playTextAppear, playTextDelete, playUIClick, playGlitch or playRedaction
Play ==
  /\ \E op \in DOMAIN PlaySynth :
       Sounded(op, IF PlayGuard THEN PlaySynth[op] ELSE "none")
  /\ UNCHANGED <<parserVars, loadVars, serverVars, enabled, initialized, noise, calls, blockVars>>

\* the callback of droneLoop, which the Transport runs once the loop exists
DroneLoop ==
  /\ initialized
  /\ noise = "started"
  /\ Sounded("droneLoop", IF enabled THEN "droneSynth" ELSE "none")
  /\ UNCHANGED <<parserVars, loadVars, serverVars, enabled, initialized, noise, calls, blockVars>>

\* backgroundNoise.state after playBackgroundAmbience(), with en and init the
\* values of enabled and initialized
playBackgroundAmbience(en, init) ==
  IF en /\ init THEN "started" ELSE noise

\* backgroundNoise.state after stopBackgroundAmbience()
stopBackgroundAmbience == IF initialized THEN "stopped" ELSE noise

\* a call of toggleSounds: branch "on" or "off", start how its Tone.start()
\* settled, at where it stands, result what it resolved to, alone whether no
\* other call has written enabled since it began, and the values of enabled,
\* initialized and backgroundNoise.state when it completed
ToggleCall(branch, place) ==
  [branch |-> branch, start |-> IF place = "starting" THEN "pending" ELSE "none",
   at |-> place, result |-> FALSE, alone |-> TRUE,
   enabledAtEnd |-> FALSE, initializedAtEnd |-> initialized, noiseAtEnd |-> noise]

\* the calls, each call that has not completed told that enabled was written
Disturbed(cs) ==
  [k \in 1..Len(cs) |-> IF cs[k].at = "done" THEN cs[k] ELSE [cs[k] EXCEPT !.alone = FALSE]]

\* the values initialized may have after initialize(): true, or still false
\* when building the audio graph threw
Initialize == IF initialized THEN {TRUE} ELSE {TRUE, FALSE}

\* a click on the sound button while sound is off: toggleSounds up to its
\* await of Tone.start()
ToggleOn ==
  /\ Len(calls) < MaxCalls
  /\ ~enabled
  /\ enabled' = TRUE
  /\ initialized' \in Initialize
  /\ calls' = Append(Disturbed(calls), ToggleCall("on", "starting"))
  /\ UNCHANGED <<parserVars, loadVars, serverVars, noise, sounded, blockVars>>

\* a click on the sound button while sound is on: toggleSounds to its end
ToggleOff ==
  /\ Len(calls) < MaxCalls
  /\ enabled
  /\ enabled' = FALSE
  /\ noise' = stopBackgroundAmbience
  /\ calls' = Append(Disturbed(calls),
                     [ToggleCall("off", "done") EXCEPT !.noiseAtEnd = stopBackgroundAmbience])
  /\ UNCHANGED <<parserVars, loadVars, serverVars, initialized, sounded, blockVars>>

\* Tone.start() of call c resolves: playBackgroundAmbience(), return
\* this.enabled
StartResolves ==
  \E c \in 1..Len(calls) :
    /\ calls[c].at = "starting"
    /\ noise' = playBackgroundAmbience(enabled, initialized)
    /\ calls' = [calls EXCEPT ![c] =
                   [@ EXCEPT !.at = "done", !.start = "resolved", !.result = enabled,
                             !.enabledAtEnd = enabled, !.initializedAtEnd = initialized,
                             !.noiseAtEnd = playBackgroundAmbience(enabled, initialized)]]
    /\ UNCHANGED <<parserVars, loadVars, serverVars, enabled, initialized, sounded, blockVars>>

\* a catch block that leaves enabled as it is
StartRejects_keepsEnabled ==
  \E c \in 1..Len(calls) :
    /\ calls[c].at = "starting"
    /\ calls' = [calls EXCEPT ![c] =
                   [@ EXCEPT !.at = "done", !.start = "rejected", !.result = enabled,
                             !.enabledAtEnd = enabled, !.initializedAtEnd = initialized,
                             !.noiseAtEnd = noise]]
    /\ UNCHANGED <<parserVars, loadVars, serverVars, enabled, initialized, noise, sounded, blockVars>>

\* Tone.start() of call c rejects: enabled = false, return this.enabled
StartRejects ==
  \E c \in 1..Len(calls) :
    /\ calls[c].at = "starting"
    /\ enabled' = FALSE
    /\ calls' = [Disturbed(calls) EXCEPT ![c] =
                   [calls[c] EXCEPT !.at = "done", !.start = "rejected", !.result = FALSE,
                                    !.enabledAtEnd = FALSE,
                                    !.initializedAtEnd = initialized,
                                    !.noiseAtEnd = noise]]
    /\ UNCHANGED <<parserVars, loadVars, serverVars, initialized, noise, sounded, blockVars>>

NextSound ==
  \/ ToggleOn
  \/ ToggleOff
  \/ StartResolves
  \/ StartRejects
  \/ Play
  \/ DroneLoop

SpecSound == Init /\ [][NextSound]_vars

----------------------------------------------------------------------------
(* The text blocks of the sketch (src/unnamed/part_000).  draw() runs once  *)
(* a frame; addNewTextBlock is run by the interval timer, by the add        *)
(* button, and in a loop by the timeouts that add the initial blocks.       *)
(* alpha and fadeSpeed are counted in whole units.                          *)

MaxAdds == 3       \* calls of addNewTextBlock the handlers make
MaxFrames == 250   \* frames drawn
NearFull == 1      \* blocks short of maxBlocks when the handlers at capacity start

maxBlocks == 20    \* settings.maxBlocks
startAlpha == 255  \* this.alpha of a new DiffBlock
minAlpha == 40     \* this.minAlpha
fadeDelay == 240   \* the lifetime after which a block fades
keptAlpha == 30    \* the alpha above which addNewTextBlock keeps a block

\* the values random(0.2, 0.6) * settings.fadeSpeed takes
FadeSpeeds == {1, 25}

\* the numbers of frames drawn in a row
FrameRuns == {250}

Max(a, b) == IF a >= b THEN a ELSE b

Min(a, b) == IF a <= b THEN a ELSE b

\* text.split(' ')
SplitSpace(text) ==
  Let({0, Len(text) + 1} \cup {k \in 1..Len(text) : text[k] = " "}, LAMBDA cuts :
    [j \in 1..(Cardinality(cuts) - 1) |->
       SubSeq(text, Nth(cuts, j) + 1, Nth(cuts, j + 1) - 1)])

\* the words of ch.from or ch.to that addNewTextBlock shows
ShownWords(text) ==
  SelectSeq(SplitSpace(NewlinesToSpaces(text)), LAMBDA word : Trim(word) # <<>>)

DiffWord(word, type) == [word |-> word, type |-> type]

Typed(words, type) == [k \in 1..Len(words) |-> DiffWord(words[k], type)]

\* new DiffBlock(diff, x, y), with fadeSpeed the value its constructor draws
DiffBlock(diff, fadeSpeed) ==
  [diff |-> diff, alpha |-> startAlpha, fadeSpeed |-> fadeSpeed, lifetime |-> 0]

\* block after frames calls of block.update() while the flow is not paused
update(block, frames) ==
  Let(Max(0, block.lifetime + frames - Max(block.lifetime, fadeDelay)), LAMBDA fading :
    [block EXCEPT !.lifetime = @ + frames,
                  !.alpha = IF fading > 0 THEN Max(@ - fading * block.fadeSpeed, minAlpha)
                            ELSE @])

\* the separator word, the one character U+2192
Arrow == <<"->">>

RECURSIVE ChangesDiff(_, _, _)
\* the words the loop of addNewTextBlock over entry.changes adds to diff
ChangesDiff(changes, k, diff) ==
  IF k > Len(changes) THEN diff
  ELSE ChangesDiff(changes, k + 1,
         IF changes[k].from # <<>> /\ changes[k].to # <<>>
           THEN diff \o Typed(ShownWords(changes[k].from), "deleted")
                     \o <<DiffWord(Arrow, "info")>>
                     \o Typed(ShownWords(changes[k].to), "inserted")
           ELSE diff)

\* the diff addNewTextBlock builds of an entry
EntryDiff(entry) ==
  ChangesDiff(entry.changes, 1,
    <<DiffWord(<<"S","o","u","r","c","e",":"," ">> \o (IF entry.source # <<>> THEN entry.source
                                                      ELSE <<"G","o","v","e","r","n","m","e","n","t"," ","D","o","c","u","m","e","n","t">>),
               "info")>>)

\* textBlocks.filter(block => block.alpha > 30)
Unfaded(blocks) == SelectSeq(blocks, LAMBDA block : block.alpha > keptAlpha)

\* textBlocks after a call of addNewTextBlock, and whether the call added a
\* block
Returned(blocks, added) == [textBlocks |-> blocks, added |-> added]

\* an addNewTextBlock that removes no block when the list is at capacity
addNewTextBlock_noShift(blocks, random) ==
  IF ~dataLoaded \/ paused \/ NoEntries(gdgData) THEN Returned(blocks, FALSE)
  ELSE Let(gdgData.entries[random.index], LAMBDA entry :
         Let(EntryDiff(entry), LAMBDA diff :
           IF Len(entry.changes) = 0 \/ Len(diff) <= 1 THEN Returned(Unfaded(blocks), FALSE)
           ELSE Returned(Append(Unfaded(blocks), DiffBlock(diff, random.speed)), TRUE)))

\* textBlocks after addNewTextBlock(); random.index is the entry that
\* random(gdgData.entries.length) picks and random.speed the fadeSpeed of
\* the new block
addNewTextBlock(blocks, random) ==
  IF ~dataLoaded \/ paused \/ NoEntries(gdgData) THEN Returned(blocks, FALSE)
  ELSE Let(Unfaded(blocks), LAMBDA kept :
       Let(IF Len(kept) >= maxBlocks THEN Tail(kept) ELSE kept, LAMBDA room :
       Let(gdgData.entries[random.index], LAMBDA entry :
         IF Len(entry.changes) = 0 THEN Returned(room, FALSE)
         ELSE Let(EntryDiff(entry), LAMBDA diff :
                IF Len(diff) <= 1 THEN Returned(room, FALSE)
                ELSE Returned(Append(room, DiffBlock(diff, random.speed)), TRUE)))))

RECURSIVE AddLoop(_, _, _)
\* for (let i = 0; i < n; i++) addNewTextBlock(); r is what the calls made
\* so far have left
AddLoop(r, randoms, i) ==
  IF i > Len(randoms) THEN r
  ELSE Let(addNewTextBlock(r.textBlocks, randoms[i]), LAMBDA next :
         AddLoop(Returned(next.textBlocks, r.added \/ next.added), randoms, i + 1))

\* the handler took textBlocks from r; addNewTextBlock has called
\* soundEffects.playTextAppear() if it added a block and initialized is true
AfterAdds(r) ==
  /\ textBlocks' = r.textBlocks
  /\ IF r.added /\ initialized
       THEN Sounded("playTextAppear", IF PlayGuard THEN PlaySynth.playTextAppear ELSE "none")
       ELSE UNCHANGED sounded

\* the diff processData builds of an entry
ProcessedDiff(entry) ==
  <<DiffWord(<<"S","o","u","r","c","e",":"," ">> \o entry.source, "info")>>
  \o [k \in 1..(2 * Len(entry.changes)) |->
        IF k % 2 = 1 THEN DiffWord(NewlinesToSpaces(entry.changes[(k + 1) \div 2].from), "deleted")
                     ELSE DiffWord(NewlinesToSpaces(entry.changes[k \div 2].to), "inserted")]

\* textBlocks after processData() of the sketch "rss", which draw() calls
\* while the list is empty; speeds[i] is the fadeSpeed of block i
processData_draw(blocks, speeds) ==
  IF gdgData = Undefined \/ ~gdgData.hasEntries THEN blocks
  ELSE IF Len(blocks) > 0 THEN blocks
  ELSE [i \in 1..Min(5, Len(gdgData.entries)) |->
          DiffBlock(ProcessedDiff(gdgData.entries[i]), speeds[i])]

\* the draws of random() in one call of addNewTextBlock
Randoms ==
  IF NoEntries(gdgData) THEN {[index |-> 1, speed |-> 1]}
  ELSE [index : 1..Len(gdgData.entries), speed : FadeSpeeds]

\* the number of initial blocks the timeout of processRSSFeed adds
InitialCount == 3

\* the feeds the sketch is started on
BlockFeeds ==
  { <<Item(<<"r","i","o","t"," ","i","n"," ","c","i","t","y"," ","5">>, <<>>, <<"h","t","t","p","s",":","/","/","b",".","o","r","g","/","3">>)>> }

\* preload() has called fetch, or the feed was loaded and processed
InitBlocks ==
  /\ ParserInit /\ ServerIdle /\ SoundIdle /\ BlocksIdle
  /\ variant = "json"
  /\ sketch = "rss"
  /\ \/ LoadInit
     \/ \E feed \in BlockFeeds :
          /\ pc = "done"
          /\ response = [settled |-> "resolved", ok |-> TRUE]
          /\ body = [settled |-> "resolved", value |-> feed]
          /\ Let(processRSSFeed(feed, [i \in 1..Len(feed) |-> 1]), LAMBDA r :
               gdgData = r.gdgData /\ dataLoaded = r.dataLoaded)

\* the draws of random() in the calls that fill the list
FillRandom == [index |-> 1, speed |-> 1]

NearlyFull == Len(textBlocks) >= maxBlocks - NearFull

\* has a handler run, or is there nothing to fill
Started == nAdds > 0 \/ frameCount > 0 \/ paused \/ NearlyFull

\* addNewTextBlock() of the interval timer on a list that is not yet nearly full
FillBlocks ==
  /\ ~Started
  /\ dataLoaded
  /\ AfterAdds(addNewTextBlock(textBlocks, FillRandom))
  /\ UNCHANGED <<parserVars, loadVars, serverVars, enabled, initialized, noise, calls,
                 paused, frameCount, nAdds>>

\* the handlers run on an empty list or a nearly full one
Ready == Started \/ textBlocks = <<>>

\* the callback of setInterval(addNewTextBlock, settings.addBlockInterval)
AutoAdd ==
  /\ Ready /\ nAdds < MaxAdds
  /\ nAdds' = nAdds + 1
  /\ \E random \in Randoms : AfterAdds(addNewTextBlock(textBlocks, random))
  /\ UNCHANGED <<parserVars, loadVars, serverVars, enabled, initialized, noise, calls,
                 paused, frameCount>>

\* the click listener of btn-add-block: addNewTextBlock(), then playUIClick()
ManualAdd ==
  /\ Ready /\ nAdds < MaxAdds
  /\ nAdds' = nAdds + 1
  /\ \E random \in Randoms : textBlocks' = addNewTextBlock(textBlocks, random).textBlocks
  /\ Sounded("playUIClick", IF PlayGuard THEN PlaySynth.playUIClick ELSE "none")
  /\ UNCHANGED <<parserVars, loadVars, serverVars, enabled, initialized, noise, calls,
                 paused, frameCount>>

\* the timeout that adds the initial blocks
InitialAdds ==
  /\ Ready /\ nAdds + InitialCount <= MaxAdds
  /\ nAdds' = nAdds + InitialCount
  /\ \E randoms \in [1..InitialCount -> Randoms] :
       AfterAdds(AddLoop(Returned(textBlocks, FALSE), randoms, 1))
  /\ UNCHANGED <<parserVars, loadVars, serverVars, enabled, initialized, noise, calls,
                 paused, frameCount>>

\* the click listener of btn-toggle-flow
ToggleFlow ==
  /\ Ready
  /\ paused' = ~paused
  /\ Sounded("playUIClick", IF PlayGuard THEN PlaySynth.playUIClick ELSE "none")
  /\ UNCHANGED <<parserVars, loadVars, serverVars, enabled, initialized, noise, calls,
                 textBlocks, frameCount, nAdds>>

\* draw(), frames times in a row: processData() while the list is empty,
\* then block.update() of every block unless the flow is paused
Draw ==
  /\ Ready
  /\ \E frames \in FrameRuns :
       /\ frameCount + frames <= MaxFrames
       /\ frameCount' = frameCount + frames
       /\ \E speeds \in [1..5 -> FadeSpeeds] :
            /\ \A i \in 1..5 :
                 speeds[i] = 1 \/ (dataLoaded /\ textBlocks = <<>> /\ ~NoEntries(gdgData)
                                   /\ i <= Len(gdgData.entries))
            /\ textBlocks' =
                 IF ~dataLoaded THEN textBlocks
                 ELSE Let(IF Len(textBlocks) = 0 THEN processData_draw(textBlocks, speeds)
                                                 ELSE textBlocks,
                          LAMBDA blocks :
                            IF paused THEN blocks
                            ELSE [k \in 1..Len(blocks) |-> update(blocks[k], frames)])
  /\ UNCHANGED <<parserVars, loadVars, serverVars, soundVars, paused, nAdds>>

NextBlocks ==
  \/ FillBlocks
  \/ AutoAdd
  \/ ManualAdd
  \/ InitialAdds
  \/ ToggleFlow
  \/ Draw

SpecBlocks == InitBlocks /\ [][NextBlocks]_vars

----------------------------------------------------------------------------
(* Properties of the feed loading *)

\* a change whose from and to are not empty after trimming
KeptChange(ch) == Len(Trim(ch.from)) > 0 /\ Len(Trim(ch.to)) > 0

\* C2: once dataLoaded is true, every change in gdgData.entries has a from
\* and a to that are not empty after trimming, whichever load path made it.
C2_LoadedChangesAreValid ==
  dataLoaded =>
    \A k \in 1..Len(gdgData.entries) :
      \A c \in 1..Len(gdgData.entries[k].changes) :
        KeptChange(gdgData.entries[k].changes[c])

\* the load failed: the fetch rejected, the status is not OK, the document
\* did not arrive, the feed has no items or no entries, or processing the
\* document throws
LoadFailed ==
  \/ response.settled = "rejected"
  \/ response.settled = "resolved" /\ ~response.ok
  \/ body.settled = "rejected"
  \/ /\ body.settled = "resolved"
     /\ IF sketch = "rss" THEN Len(body.value) = 0
        ELSE NoEntries(body.value) \/ ReduceThrows(body.value)

\* C3: a load that failed ends with gdgData = getSampleData() and
\* dataLoaded = true, and does not stop before that with the error unhandled.
C3_FailureEndsWithSampleData ==
  LoadFailed =>
    /\ pc = "done" => gdgData = SampleData /\ dataLoaded
    /\ pc # "done" => ENABLED NextLoad

\* processData threw on the document, and the sample data are loaded
C3_Witness ==
  /\ pc = "done" /\ sketch = "json"
  /\ body.settled = "resolved" /\ ReduceThrows(body.value)
  /\ gdgData = SampleData /\ dataLoaded

DataReady ==
  /\ dataLoaded
  /\ gdgData.kind = "object" /\ gdgData.hasEntries
  /\ gdgData.notArray \/ Len(gdgData.entries) # 0

\* C5: when the load has ended with dataLoaded true, gdgData.entries is a
\* list that is not empty, and addNewTextBlock finds the data ready; an
\* empty or missing list of the feed was replaced by the sample data.
C5_LoadedEntriesNotEmpty ==
  (pc = "done" /\ dataLoaded) =>
    /\ DataReady
    /\ ~gdgData.notArray /\ Len(gdgData.entries) > 0
    /\ (body.settled = "resolved" /\ sketch = "json" /\ NoEntries(body.value)) =>
         gdgData = SampleData
    /\ (body.settled = "resolved" /\ sketch = "rss" /\ Len(body.value) = 0) =>
         gdgData = SampleData

\* the document held an empty list of entries, and the sample data are loaded
C5_Witness ==
  /\ pc = "done" /\ dataLoaded /\ sketch = "json"
  /\ body.settled = "resolved" /\ body.value = JsonData(<<>>)
  /\ gdgData = SampleData

----------------------------------------------------------------------------
(* Properties of the parser *)

\* C1: after any sequence of addEntry and parseGDGData calls, in both
\* variants of the parser, every entry of processedEntries has at least one
\* change, and every change kept has a from and a to that are not empty
\* after trimming.
C1_EntriesKeepValidChanges ==
  \A k \in 1..Len(processedEntries) :
    LET changes == processedEntries[k].changes
    IN /\ Len(changes) > 0
       /\ \A c \in 1..Len(changes) : KeptChange(changes[c])

\* addEntry was given an entry with a change to keep and a change to drop,
\* and added the entry
C1_Witness ==
  /\ lastOp = "addEntry"
  /\ \E c \in 1..Len(lastArg.changes) : ~KeptChange(lastArg.changes[c])
  /\ Len(processedEntries) = Len(prevEntries) + 1
  /\ Len(processedEntries[Len(processedEntries)].changes) < Len(lastArg.changes)

\* C9: parseGDGData of the JSON-articles variant returns the sample data
\* when its input is null or undefined, has no articles, has articles that
\* are no array, or when processing throws, which it does exactly when the
\* loop takes up an article that is null; in every other case it returns
\* {entries: processedEntries}.
C9_ParseReturnsSampleOrEntries ==
  (lastOp = "parseGDGData" /\ variant = "json") =>
    LET n == lastRet.consumed
        threw == n > 0 /\ lastArg.articles[n].nul
    IN /\ lastRet.threw = threw
       /\ lastRet.value =
            IF lastArg.kind \in {"null", "noArticles", "notArray"} \/ threw
            THEN getSampleData
            ELSE [entries |-> processedEntries]

\* processing threw after an entry was added, and the call returned the
\* sample data
C9_Witness ==
  /\ lastOp = "parseGDGData" /\ variant = "json"
  /\ lastRet.threw
  /\ Len(processedEntries) > Len(prevEntries)
  /\ lastRet.value = getSampleData

FeedLength == IF variant = "json" THEN Len(lastArg.articles) ELSE Len(lastArg)

\* C10: processedEntries never holds more than maxEntries entries; addEntry
\* called at capacity leaves processedEntries unchanged; parseGDGData takes
\* up a feed item only while processedEntries is below capacity, and stops
\* before the end of the feed only at capacity or on an exception.
C10_CapacityIsKept ==
  /\ Len(processedEntries) <= maxEntries
  /\ (lastOp = "addEntry" /\ Len(prevEntries) >= maxEntries) =>
       processedEntries = prevEntries
  /\ lastOp = "parseGDGData" =>
       /\ lastRet.consumed > 0 => lastRet.lenAtLast < maxEntries
       /\ lastRet.consumed < FeedLength =>
            lastRet.threw \/ Len(processedEntries) >= maxEntries

\* parseGDGData reached capacity in the middle of a feed and left the rest
\* of the feed alone
C10_Witness ==
  /\ lastOp = "parseGDGData"
  /\ Len(prevEntries) < maxEntries
  /\ Len(processedEntries) = maxEntries
  /\ lastRet.consumed > 0
  /\ lastRet.consumed < FeedLength

\* C11: parseGDGData of the RSS/XML variant returns the sample data when
\* processedEntries holds fewer than 10 entries after the items of the feed
\* were processed, or when parsing threw; in every other case it returns
\* {entries: processedEntries}.
C11_XmlParseReturnsSampleOrEntries ==
  (lastOp = "parseGDGData" /\ variant = "xml") =>
    lastRet.value =
      IF lastRet.threw \/ Len(processedEntries) < 10
      THEN getSampleData_xml
      ELSE [entries |-> processedEntries]

\* a call that started below 10 entries ended with 10 or more and returned
\* them, after a call that returned the sample data
C11_Witness ==
  /\ lastOp = "parseGDGData" /\ variant = "xml"
  /\ Len(prevEntries) < 10
  /\ Len(processedEntries) >= 10
  /\ ~lastRet.threw
  /\ lastRet.value = [entries |-> processedEntries]

\* the items of the feed that the loop of the last parseGDGData took up and
\* that have a link
LinkedItems == {i \in 1..lastRet.consumed : lastArg[i].link # <<>>}

\* C12: in parseGDGData of the RSS/XML variant every feed item with a link
\* that the loop takes up yields an entry of processedEntries: where the
\* description gives no valid change, the synthetic change stands in.
C12_LinkedItemsYieldEntries ==
  (lastOp = "parseGDGData" /\ variant = "xml" /\ ~lastRet.threw) =>
    Len(processedEntries) - Len(prevEntries) >= Cardinality(LinkedItems)

\* the title, description and content of an article that are longer than 10
\* characters, in that order
LongTexts(article) ==
  SelectSeq(<<article.title, article.description, article.content>>,
            LAMBDA text : Len(text) > 10)

\* the entries the last call added to processedEntries
AddedEntries == SubSeq(processedEntries, Len(prevEntries) + 1, Len(processedEntries))

\* the articles the loop of the last parseGDGData took up that have a text
\* longer than 10 characters
LongArticles ==
  {i \in 1..lastRet.consumed :
     ~lastArg.articles[i].nul /\ LongTexts(lastArg.articles[i]) # <<>>}

\* C13: in parseGDGData of the JSON-articles variant, an article
\* contributes an entry only if its title, description or content is longer
\* than 10 characters: the entries added come, in the order of the feed,
\* from articles with such a text; each holds exactly one change, whose from
\* is the first of title, description, content that is longer than 10
\* characters, and whose to is createRedactedVersion of its from.
C13_ArticlesYieldOneChange ==
  (lastOp = "parseGDGData" /\ variant = "json" /\ lastArg.kind = "array") =>
    Let(AddedEntries, LAMBDA added :
      /\ \A n \in 1..Len(added) :
           /\ Len(added[n].changes) = 1
           /\ added[n].changes[1].to = createRedactedVersion(added[n].changes[1].from)
      /\ \E f \in [1..Len(added) -> LongArticles] :
           /\ \A n \in 1..Len(added) : \A k \in 1..Len(added) : n < k => f[n] < f[k]
           /\ \A n \in 1..Len(added) :
                added[n].changes[1].from = Head(LongTexts(lastArg.articles[f[n]])))

\* an article with a short title gave an entry from its description, and an
\* article with no title an entry from its content
C13_Witness ==
  /\ lastOp = "parseGDGData" /\ variant = "json"
  /\ lastArg = Articles(<<DescribedArticle, ContentArticle>>)
  /\ Len(AddedEntries) = 2
  /\ AddedEntries[1].changes[1].from = DescribedArticle.description
  /\ AddedEntries[2].changes[1].from = ContentArticle.content

\* C14: extractSource of the JSON-articles variant returns article.source
\* if present, else the hostname of article.url without a leading "www." (or
\* the url itself if it cannot be parsed), else article.domain, else "News
\* Article"; the result is never empty.
C14_SourceIsMostSpecific ==
  lastOp = "extractSource" =>
    /\ lastRet.value =
         IF lastArg.source # <<>> THEN lastArg.source
         ELSE IF lastArg.url # <<>>
         THEN IF ParseUrl(lastArg.url).ok THEN StripWww(ParseUrl(lastArg.url).hostname)
              ELSE lastArg.url
         ELSE IF lastArg.domain # <<>> THEN lastArg.domain
         ELSE <<"N","e","w","s"," ","A","r","t","i","c","l","e">>
    /\ lastRet.value # <<>>

----------------------------------------------------------------------------
(* Properties of createRedactedVersion *)

\* every term of the sensitive patterns
ListedTerms == UNION {sensitivePatterns[g] : g \in 1..Len(sensitivePatterns)}

\* no word character stands at position p of the word
NoWordCharAt(word, p) == p < 1 \/ p > Len(word) \/ ~IsWordChar(word[p])

\* a listed term stands in the word, in any case, with no word character
\* next to it
HoldsListedTerm(word) ==
  \E t \in ListedTerms : \E i \in 1..(Len(word) - Len(t) + 1) :
    /\ \A k \in 1..Len(t) : ToLower(word[i + k - 1]) = t[k]
    /\ NoWordCharAt(word, i - 1)
    /\ NoWordCharAt(word, i + Len(t))

\* digits stand in the word with no word character next to them
HoldsStandaloneNumber(word) ==
  \E i \in 1..Len(word) : \E j \in i..Len(word) :
    /\ \A k \in i..j : word[k] \in Digits
    /\ NoWordCharAt(word, i - 1)
    /\ NoWordCharAt(word, j + 1)

\* C6: the pattern variant of createRedactedVersion returns "" for the empty
\* text; otherwise it returns the words of the text, split at white space,
\* joined by single spaces, a word being "[REDACTED]" if it holds a listed
\* term at word boundaries (in any case) or a standalone number, and itself
\* if not; the result has as many words as the text.
C6_PatternRedaction ==
  (variant = "json" /\ lastOp = "createRedactedVersion") =>
    IF lastArg = <<>> THEN lastRet.value = <<>>
    ELSE Let(SplitWs(lastArg), LAMBDA words :
           /\ \A k \in 1..Len(words) : \A c \in 1..Len(words[k]) : ~IsSpace(words[k][c])
           /\ lastRet.value =
                Join([k \in 1..Len(words) |->
                        IF HoldsListedTerm(words[k]) \/ HoldsStandaloneNumber(words[k])
                        THEN REDACTED ELSE words[k]], <<" ">>)
           /\ Len(SplitWs(lastRet.value)) = Len(words))

\* a word with a listed term is redacted, a word with digits after a letter
\* is kept, and the white space between them has become one space
C6_Witness ==
  /\ variant = "json" /\ lastOp = "createRedactedVersion"
  /\ lastArg = <<"S","e","c","r","e","t",","," "," ","\n","x","1","2">>
  /\ lastRet.value = <<"[","R","E","D","A","C","T","E","D","]"," ","x","1","2">>

\* the length of a percentage at i: digits, optionally with a decimal part,
\* followed by %
PercentageLen(s, i) ==
  IF s[i] \in Digits /\ WordBoundary(s, i)
  THEN Let({e \in OptFraction(s, DigitRunEnds(s, i)) : e <= Len(s) /\ s[e] = "%"},
           LAMBDA ends : IF ends # {} THEN (CHOOSE e \in ends : TRUE) + 1 - i ELSE 0)
  ELSE 0

\* the text with every percentage replaced by "a percentage"
WithoutPercentages(s) ==
  ReplaceFrom(s, Table([i \in 1..Len(s) |-> PercentageLen(s, i)]), <<"a"," ","p","e","r","c","e","n","t","a","g","e">>, 1, <<>>)

\* C7: the softening variant of createRedactedVersion replaces every
\* percentage by "a percentage", every remaining standalone integer by
\* "several", every listed location by "the region" and every listed strong
\* word by its paraphrase, and leaves the rest of the text as it is.
C7_SofteningReplacesAll ==
  (variant = "xml" /\ lastOp = "createRedactedVersion") =>
    lastRet.value =
      ReplaceStrongWords(ReplaceLocations(ReplaceIntegers(WithoutPercentages(lastArg)), 1), 1)

----------------------------------------------------------------------------
(* Properties of the server routes *)

\* the last answer given
LastReply == replies[Len(replies)]

\* the upstream answered OK with a gzip stream of a JSON document
UpstreamGood ==
  /\ fetched.settled = "resolved" /\ Ok(fetched.value)
  /\ buffered.settled = "resolved" /\ buffered.value.format = "gzip"
  /\ ~JSONparse(buffered.value.text).threw

\* the local file was read and holds a JSON document
FileGood ==
  /\ fetched.settled = "resolved"
  /\ ~JSONparse(fetched.value).threw

\* the body is a JSON object whose first member is "error", a text
IsErrorObject(reply) ==
  Let(JSONparse(reply.body), LAMBDA parsed :
    /\ ~parsed.threw
    /\ parsed.data.t = "obj"
    /\ Len(parsed.data.v) >= 1
    /\ parsed.data.v[1].key = <<"e","r","r","o","r">>
    /\ parsed.data.v[1].val.t = "str")

\* C8: no handler ends with its error unhandled and every answer is JSON; the
\* Netlify handler answers 200 with the parsed feed as body when the fetch,
\* the decompression and the parsing succeeded, and 500 with {error: message}
\* otherwise; the Express route answers 200 with the parsed file, and 500
\* with an error object when the file cannot be read or parsed.
C8_RoutesAnswerJson ==
  /\ at # "unhandled"
  /\ \A k \in 1..Len(replies) :
       /\ replies[k].contentType = "application/json"
       /\ ~JSONparse(replies[k].body).threw
  /\ (at = "answered" /\ handler = "netlify") =>
       IF UpstreamGood
       THEN /\ LastReply.statusCode = 200
            /\ LastReply.body = JSONstringify(JSONparse(buffered.value.text).data)
       ELSE /\ LastReply.statusCode = 500
            /\ IsErrorObject(LastReply)
            /\ Len(JSONparse(LastReply.body).data.v) = 1
  /\ (at = "answered" /\ handler = "express") =>
       IF FileGood
       THEN /\ LastReply.statusCode = 200
            /\ LastReply.body = JSONstringify(JSONparse(fetched.value).data)
       ELSE /\ LastReply.statusCode = 500
            /\ IsErrorObject(LastReply)

\* the Netlify handler has answered 500 to a body that is no JSON document,
\* after an answer of 200
C8_Witness ==
  /\ handler = "netlify" /\ at = "answered"
  /\ Len(replies) = 2
  /\ replies[1].statusCode = 200
  /\ buffered.settled = "resolved" /\ buffered.value = Gzip(<<"{","\"","e","n","t","r","i","e","s","\"",":"," ","[">>)
  /\ LastReply.statusCode = 500
  /\ LastReply.body = <<"{","\"","e","r","r","o","r","\"",":","\"","F","a","i","l","e","d"," ","t","o"," ","p","a","r","s","e"," ","G","D","E","L","T"," ","d","a","t","a","\"","}">>

----------------------------------------------------------------------------
(* Properties of SoundEffects *)

\* C15: playTextAppear, playTextDelete, playUIClick, playGlitch and
\* playRedaction trigger a synth, and playBackgroundAmbience starts the
\* noise, only when enabled and initialized are both true; the callback of
\* the drone loop triggers a note only when enabled is true.
C15_NoSoundUnlessEnabled ==
  [][/\ (sounded' # sounded /\ sounded'.synth # "none") =>
          IF sounded'.op = "droneLoop" THEN enabled ELSE enabled /\ initialized
     /\ (noise # "started" /\ noise' = "started") => enabled /\ initialized]_vars

\* playGlitch has triggered its synth
C15_Witness ==
  sounded.op = "playGlitch" /\ sounded.synth = "textDeleteSynth"

\* the calls of toggleSounds that have completed
DoneCalls == {c \in 1..Len(calls) : calls[c].at = "done"}

\* what holds of every completed call whatever the other calls did: a
\* rejected Tone.start() sets enabled back to false and the call resolves to
\* false; toggling off stops the background ambience and resolves to false;
\* the value resolved to is enabled at the moment the call completes
ToggleResolves(call) ==
  /\ call.start = "rejected" => ~call.enabledAtEnd /\ ~call.result
  /\ call.branch = "off" => ~call.result /\ call.noiseAtEnd = "stopped"
  /\ call.result = call.enabledAtEnd

C17_NoiseOnlyWhenEnabled ==
  (calls # <<>> /\ DoneCalls = 1..Len(calls)) => (noise = "started" => enabled)

\* C18: a call of toggleSounds that completed leaving enabled true left
\* initialized true as well.
C18_EnabledOnlyWhenInitialized ==
  \A c \in DoneCalls : calls[c].enabledAtEnd => calls[c].initializedAtEnd

----------------------------------------------------------------------------
(* Properties of the text blocks *)

\* addNewTextBlock gets past its first test and finds the list at capacity
FindsListFull ==
  /\ dataLoaded /\ ~paused /\ ~NoEntries(gdgData)
  /\ Len(Unfaded(textBlocks)) >= maxBlocks

\* a block as its constructor leaves it
IsNew(block) == block.lifetime = 0 /\ block.alpha = startAlpha

\* the step removed the oldest blocks of the list, as many as n at most and
\* one at least, and appended new blocks at its end
OldestRemoved(n) ==
  \E j \in 1..n :
    Let(Unfaded(textBlocks), LAMBDA kept :
      /\ Len(textBlocks') >= Len(kept) - j
      /\ SubSeq(textBlocks', 1, Len(kept) - j) = SubSeq(kept, j + 1, Len(kept))
      /\ \A k \in (Len(kept) - j + 1)..Len(textBlocks') : IsNew(textBlocks'[k]))

\* C19: textBlocks never holds more than maxBlocks blocks, and a handler
\* whose call of addNewTextBlock finds the list at capacity removes the
\* oldest block before the new one is appended at the end.
C19_BlocksWithinMaxBlocks ==
  /\ [](Len(textBlocks) <= maxBlocks)
  /\ [][(nAdds' > nAdds /\ FindsListFull) => OldestRemoved(nAdds' - nAdds)]_vars

\* a block added by a handler has moved down to the place of the last of
\* the blocks the list was filled with: a block was removed from a full list
C19_Witness ==
  /\ Len(textBlocks) = maxBlocks
  /\ textBlocks[maxBlocks - NearFull].fadeSpeed # FillRandom.speed

====
